---- MODULE Spec2Model ----
(***************************************************************************)
(* A model of the raster image engine of lib/image/image.py: the tensors   *)
(* it takes and returns, the PNG and BMP codecs, the transforms and the    *)
(* parallel invert.  Images are tensors of shape [w, h, 4] whose flat data *)
(* is indexed (x*h + y)*4 + c, as the interpreter lays them out.           *)
(***************************************************************************)
EXTENDS Integers, Sequences, FiniteSets, TLC

\* heap: the tensors alive; disk: the file last written; env: what the
\* platform offers (Pillow, GDI+, CPU count); op, args, ret, err: the last
\* call, its arguments, the object it returned and the error it raised;
\* pool, joined: the tasks of a thread pool and how many of their futures
\* the caller has waited for; tall: how many image rows one stored row
\* stands for.
VARIABLES heap, disk, env, op, args, ret, err, pool, joined, tall

vars == <<heap, disk, env, op, args, ret, err, pool, joined, tall>>

\* ------------------------------------------------------------------ bounds

\* Largest width and height of the images the model starts from.
MaxW == 2
MaxH == 2

\* Largest CPU count the platform reports.
MaxCpu == 3

\* The number of equal image rows one stored row of a tall image stands for.
TallRows == 32768

\* ------------------------------------------------------- tensors and images

NoTensor == [shape |-> <<>>, data |-> <<>>]
NoFile == [origin |-> "none", bytes |-> <<>>]
NoArgs == [none |-> TRUE]

\* The objects of the heap: the two tensors a call may be given and the
\* tensor a call allocates.
Ids == {"in1", "in2", "out"}

Tensor(w, h, data) == [shape |-> <<w, h, 4>>, data |-> data]

TW(t) == t.shape[1]
TH(t) == t.shape[2]

\* arr[x, y, c] of the [w][h][4] view of a tensor's data (0-based x, y, c).
At(t, x, y, c) == t.data[(x * TH(t) + y) * 4 + c + 1]

\* The (r, g, b, a) of pixel (x, y).
Px(t, x, y) == <<At(t, x, y, 0), At(t, x, y, 1), At(t, x, y, 2), At(t, x, y, 3)>>

\* The tensor of shape [w, h, 4] whose pixel (x, y) is f[<<x, y>>].
FromPixels(w, h, f) ==
    Tensor(w, h, [i \in 1..(w * h * 4) |->
        LET k == i - 1
            c == k % 4
            y == (k \div 4) % h
            x == (k \div 4) \div h
        IN  f[<<x, y>>][c + 1]])

\* Pixel values the start images are painted with.
Palette ==
    << <<0, 0, 0, 0>>, <<255, 0, 0, 255>>, <<0, 255, 0, 255>>, <<0, 0, 255, 255>>,
       <<255, 255, 255, 255>>, <<128, 64, 32, 200>>, <<1, 2, 3, 4>>, <<254, 127, 13, 128>> >>

\* A start image paints pixel (x, y) with Palette[(base + dx*x + dy*y) mod 8].
Patterns == { <<0, 0, 0>>, <<1, 1, 3>>, <<4, 1, 3>>, <<5, 3, 1>>, <<4, 0, 0>> }

PatternImage(w, h, p) ==
    FromPixels(w, h, [xy \in (0..(w - 1)) \X (0..(h - 1)) |->
        Palette[((p[1] + p[2] * xy[1] + p[3] * xy[2]) % Len(Palette)) + 1]])

StartImages == { PatternImage(w, h, p) : w \in 1..MaxW, h \in 1..MaxH, p \in Patterns }

InRange(t) == \A i \in 1..Len(t.data) : t.data[i] \in 0..255

WellFormed(t) ==
    /\ Len(t.shape) = 3
    /\ t.shape[3] = 4
    /\ Len(t.data) = t.shape[1] * t.shape[2] * 4

\* --------------------------------------------------------------- byte tools

\* data[lo:hi] of Python, 0-based and clipped to the sequence.
Slice(s, lo, hi) ==
    LET h2 == IF hi > Len(s) THEN Len(s) ELSE hi
    IN  IF lo >= h2 THEN <<>> ELSE [i \in 1..(h2 - lo) |-> s[lo + i]]

RECURSIVE Flatten(_)
Flatten(ss) == IF ss = <<>> THEN <<>> ELSE Head(ss) \o Flatten(Tail(ss))

U32BE(n) == <<(n \div 16777216) % 256, (n \div 65536) % 256, (n \div 256) % 256, n % 256>>
U32LE(n) == <<n % 256, (n \div 256) % 256, (n \div 65536) % 256, (n \div 16777216) % 256>>
U16LE(n) == <<n % 256, (n \div 256) % 256>>

\* struct.unpack of an unsigned and of a signed 32-bit field, an unsigned
\* 16-bit field; b is the field's bytes in file order.
ReadU32BE(b) == ((b[1] * 256 + b[2]) * 256 + b[3]) * 256 + b[4]
ReadU32LE(b) == ((b[4] * 256 + b[3]) * 256 + b[2]) * 256 + b[1]
ReadI32LE(b) ==
    IF b[4] >= 128
    THEN (b[4] - 256) * 16777216 + (b[3] * 256 + b[2]) * 256 + b[1]
    ELSE ReadU32LE(b)
ReadU16LE(b) == b[2] * 256 + b[1]

Abs(n) == IF n < 0 THEN -n ELSE n
Min(a, b) == IF a < b THEN a ELSE b
Max(a, b) == IF a > b THEN a ELSE b

\* _clamp_channel
ClampChannel(v) == IF v < 0 THEN 0 ELSE IF v > 255 THEN 255 ELSE v

\* v & 0xFF on a Python integer (two's complement, any sign).
And127(v) == v % 128
And255(v) == v % 256

\* ---------------------------------------------------------------- PNG codec

PNG_SIGNATURE == <<137, 80, 78, 71, 13, 10, 26, 10>>
IHDR == <<73, 72, 68, 82>>
IDAT == <<73, 68, 65, 84>>
IEND == <<73, 69, 78, 68>>

\* _paeth with every tie going to the later neighbour.
PaethTiesLast(a, b, c) ==
    LET p == a + b - c
        pa == Abs(p - a)
        pb == Abs(p - b)
        pc == Abs(p - c)
    IN  IF pa < pb /\ pa < pc THEN a
        ELSE IF pb < pc THEN b
        ELSE c

\* _paeth
Paeth(a, b, c) ==
    LET p == a + b - c
        pa == Abs(p - a)
        pb == Abs(p - b)
        pc == Abs(p - c)
    IN  IF pa <= pb /\ pa <= pc THEN a
        ELSE IF pb <= pc THEN b
        ELSE c

\* ReconRow with "left" taken one byte back instead of one pixel back.
ReconRowByteLeft(ftype, row, prev, bpp, stride) ==
    LET rec[i \in 0..(stride - 1)] ==
            LET left == IF i >= 1 THEN rec[i - 1] ELSE 0
                up == IF prev # <<>> THEN prev[i + 1] ELSE 0
                up_left == IF i >= 1 THEN prev[i] ELSE 0
            IN  CASE ftype = 0 -> row[i + 1]
                  [] ftype = 1 -> (row[i + 1] + left) % 256
                  [] ftype = 2 -> (row[i + 1] + up) % 256
                  [] ftype = 3 -> (row[i + 1] + ((left + up) \div 2)) % 256
                  [] OTHER -> (row[i + 1] + Paeth(left, up, up_left)) % 256
    IN  [i \in 1..stride |-> rec[i - 1]]

\* The inner loop of _decode_png: one row's bytes reconstructed left to
\* right from the filtered row and the reconstructed row above it.
ReconRow(ftype, row, prev, bpp, stride) ==
    LET rec[i \in 0..(stride - 1)] ==
            LET left == IF i >= bpp THEN rec[i - bpp] ELSE 0
                up == IF prev # <<>> THEN prev[i + 1] ELSE 0
                up_left == IF i >= bpp THEN prev[i - bpp + 1] ELSE 0
            IN  CASE ftype = 0 -> row[i + 1]
                  [] ftype = 1 -> (row[i + 1] + left) % 256
                  [] ftype = 2 -> (row[i + 1] + up) % 256
                  [] ftype = 3 -> (row[i + 1] + ((left + up) \div 2)) % 256
                  [] OTHER -> (row[i + 1] + Paeth(left, up, up_left)) % 256
    IN  [i \in 1..stride |-> rec[i - 1]]

\* The pixels one reconstructed row contributes: 3-channel rows get alpha 255.
RowPixels(recon, width, bpp) ==
    [k \in 1..(width * 4) |->
        LET x == (k - 1) \div 4
            c == (k - 1) % 4
        IN  IF c = 3 /\ bpp # 4 THEN 255 ELSE recon[x * bpp + c + 1]]

\* The row loop of _decode_png from row r on; prev is the row above,
\* pixels what the rows before r gave.
RECURSIVE DecodeRows(_, _, _, _, _, _, _)
DecodeRows(raw, width, height, bpp, r, prev, pixels) ==
    LET stride == width * bpp
        idx == r * (stride + 1)
        ftype == raw[idx + 1]
        row == Slice(raw, idx + 1, idx + 1 + stride)
    IN  IF r >= height THEN [err |-> "none", pixels |-> pixels]
        ELSE IF stride > 0 /\ ftype \notin 0..4
        THEN [err |-> "Unsupported PNG filter", pixels |-> <<>>]
        ELSE LET recon == ReconRow(ftype, row, prev, bpp, stride)
             IN  DecodeRows(raw, width, height, bpp, r + 1, recon,
                            pixels \o RowPixels(recon, width, bpp))

\* The chunk walk of _decode_png from byte position pos (0-based); st
\* carries the IHDR fields read so far (NoHdr when none) and the IDAT bytes.
RECURSIVE WalkChunks(_, _, _)
WalkChunks(data, pos, st) ==
    IF pos + 8 > Len(data) THEN st
    ELSE
        LET length == ReadU32BE(Slice(data, pos, pos + 4))
            ctype == Slice(data, pos + 4, pos + 8)
            chunk == Slice(data, pos + 8, pos + 8 + length)
            next == pos + 8 + length + 4
        IN  IF ctype = IHDR
            THEN IF Len(chunk) # 13 THEN [st EXCEPT !.err = "struct.error"]
                 ELSE IF chunk[11] # 0 \/ chunk[12] # 0
                 THEN [st EXCEPT !.err = "Unsupported PNG compression or filter method"]
                 ELSE WalkChunks(data, next,
                        [st EXCEPT !.hdr = [width |-> ReadU32BE(Slice(chunk, 0, 4)),
                                            height |-> ReadU32BE(Slice(chunk, 4, 8)),
                                            bit_depth |-> chunk[9],
                                            color_type |-> chunk[10],
                                            interlace |-> chunk[13]]])
            ELSE IF ctype = IDAT
            THEN WalkChunks(data, next, [st EXCEPT !.idat = st.idat \o chunk])
            ELSE IF ctype = IEND THEN st
            ELSE WalkChunks(data, next, st)

NoHdr == [width |-> -1, height |-> -1, bit_depth |-> -1, color_type |-> -1, interlace |-> -1]

DecodeFail(msg) == [err |-> msg, w |-> 0, h |-> 0, pixels |-> <<>>]

\* The deflate primitive (zlib), which the codec calls and does not
\* implement.  A stream is written in its stored-block form: the two header
\* bytes of the level, one final stored block (LEN, NLEN, the bytes) and the
\* Adler-32 of the bytes.  ZlibDecompress parses that form back and fails on
\* anything else, as zlib.decompress raises zlib.error.
ZlibHeader(level) ==
    IF level < 2 THEN <<120, 1>>
    ELSE IF level < 6 THEN <<120, 94>>
    ELSE IF level = 6 THEN <<120, 156>>
    ELSE <<120, 218>>

RECURSIVE AdlerAB(_, _, _, _)
AdlerAB(s, i, a, b) ==
    IF i > Len(s) THEN <<a, b>>
    ELSE LET a2 == (a + s[i]) % 65521
         IN  AdlerAB(s, i + 1, a2, (b + a2) % 65521)

Adler32(s) ==
    LET ab == AdlerAB(s, 1, 1, 0)
    IN  <<ab[2] \div 256, ab[2] % 256, ab[1] \div 256, ab[1] % 256>>

ZlibCompress(raw, level) ==
    ZlibHeader(level)
        \o <<1, Len(raw) % 256, Len(raw) \div 256,
             255 - (Len(raw) % 256), 255 - (Len(raw) \div 256)>>
        \o raw \o Adler32(raw)

ZlibDecompress(z) ==
    LET n == IF Len(z) >= 7 THEN z[5] * 256 + z[4] ELSE 0
        body == Slice(z, 7, 7 + n)
        ok == /\ Len(z) >= 11
              /\ z[1] % 16 = 8
              /\ (z[1] * 256 + z[2]) % 31 = 0
              /\ z[3] = 1
              /\ z[6] = 255 - z[4]
              /\ z[7] = 255 - z[5]
              /\ Len(z) >= 7 + n + 4
              /\ Slice(z, 7 + n, 7 + n + 4) = Adler32(body)
    IN  [ok |-> ok, data |-> IF ok THEN body ELSE <<>>]

\* DecodePng without the interlace check.
DecodePngAnyInterlace(data) ==
    IF Slice(data, 0, 8) # PNG_SIGNATURE THEN DecodeFail("Not a PNG file")
    ELSE
        LET st == WalkChunks(data, 8, [hdr |-> NoHdr, idat |-> <<>>, err |-> "none"])
            hdr == st.hdr
            bpp == IF hdr.color_type = 6 THEN 4 ELSE 3
            stride == hdr.width * bpp
            z == ZlibDecompress(st.idat)
            expected == (stride + 1) * hdr.height
        IN  IF st.err # "none" THEN DecodeFail(st.err)
            ELSE IF hdr = NoHdr THEN DecodeFail("Malformed PNG: missing IHDR")
            ELSE IF hdr.bit_depth # 8 THEN DecodeFail("Only 8-bit PNG is supported")
            ELSE IF hdr.color_type \notin {2, 6} THEN DecodeFail("Unsupported PNG color type")
            ELSE IF ~z.ok THEN DecodeFail("zlib.error")
            ELSE IF Len(z.data) < expected THEN DecodeFail("PNG data truncated")
            ELSE LET rows == DecodeRows(z.data, hdr.width, hdr.height, bpp, 0,
                                        [i \in 1..stride |-> 0], <<>>)
                 IN  IF rows.err # "none" THEN DecodeFail(rows.err)
                     ELSE [err |-> "none", w |-> hdr.width, h |-> hdr.height,
                           pixels |-> rows.pixels]

\* _decode_png on the bytes of a file: (err, width, height, pixels), the
\* pixels row-major, four channels each.
DecodePng(data) ==
    IF Slice(data, 0, 8) # PNG_SIGNATURE THEN DecodeFail("Not a PNG file")
    ELSE
        LET st == WalkChunks(data, 8, [hdr |-> NoHdr, idat |-> <<>>, err |-> "none"])
            hdr == st.hdr
            bpp == IF hdr.color_type = 6 THEN 4 ELSE 3
            stride == hdr.width * bpp
            z == ZlibDecompress(st.idat)
            expected == (stride + 1) * hdr.height
        IN  IF st.err # "none" THEN DecodeFail(st.err)
            ELSE IF hdr = NoHdr THEN DecodeFail("Malformed PNG: missing IHDR")
            ELSE IF hdr.interlace # 0 THEN DecodeFail("Interlaced PNG is not supported")
            ELSE IF hdr.bit_depth # 8 THEN DecodeFail("Only 8-bit PNG is supported")
            ELSE IF hdr.color_type \notin {2, 6} THEN DecodeFail("Unsupported PNG color type")
            ELSE IF ~z.ok THEN DecodeFail("zlib.error")
            ELSE IF Len(z.data) < expected THEN DecodeFail("PNG data truncated")
            ELSE LET rows == DecodeRows(z.data, hdr.width, hdr.height, bpp, 0,
                                        [i \in 1..stride |-> 0], <<>>)
                 IN  IF rows.err # "none" THEN DecodeFail(rows.err)
                     ELSE [err |-> "none", w |-> hdr.width, h |-> hdr.height,
                           pixels |-> rows.pixels]

\* The PNG writer SAVE_PNG hands the row-major RGBA bytes to (Pillow): an
\* 8-bit, non-interlaced, colour type 6 file of the chunks IHDR, IDAT.., IEND.
\* The writer is free in the filter of each row (row r gets filter
\* (plan + r) mod 5) and in how it cuts the compressed stream into IDAT
\* chunks (after `cut` bytes when 0 < cut < length).  The decoder steps over
\* the CRC field without reading it; its four bytes are written as zero.
PngPredict(ftype, left, up, up_left) ==
    CASE ftype = 0 -> 0
      [] ftype = 1 -> left
      [] ftype = 2 -> up
      [] ftype = 3 -> (left + up) \div 2
      [] OTHER ->
            LET p == left + up - up_left
            IN  IF Abs(p - left) <= Abs(p - up) /\ Abs(p - left) <= Abs(p - up_left)
                THEN left
                ELSE IF Abs(p - up) <= Abs(p - up_left) THEN up
                ELSE up_left

PngFilterRow(ftype, cur, above, bpp) ==
    [i \in 1..Len(cur) |->
        LET left == IF i > bpp THEN cur[i - bpp] ELSE 0
            up == above[i]
            up_left == IF i > bpp THEN above[i - bpp] ELSE 0
        IN  (cur[i] - PngPredict(ftype, left, up, up_left)) % 256]

PngScanlines(w, h, flat, plan) ==
    Flatten([r \in 1..h |->
        LET cur == Slice(flat, (r - 1) * w * 4, r * w * 4)
            above == IF r = 1 THEN [i \in 1..(w * 4) |-> 0]
                     ELSE Slice(flat, (r - 2) * w * 4, (r - 1) * w * 4)
            ftype == (plan + r - 1) % 5
        IN  <<ftype>> \o PngFilterRow(ftype, cur, above, 4)])

PngChunk(ctype, data) == U32BE(Len(data)) \o ctype \o data \o <<0, 0, 0, 0>>

PngWrite(w, h, flat, level, plan, cut) ==
    LET z == ZlibCompress(PngScanlines(w, h, flat, plan), level)
        idats == IF 0 < cut /\ cut < Len(z)
                 THEN PngChunk(IDAT, Slice(z, 0, cut)) \o PngChunk(IDAT, Slice(z, cut, Len(z)))
                 ELSE PngChunk(IDAT, z)
    IN  PNG_SIGNATURE
            \o PngChunk(IHDR, U32BE(w) \o U32BE(h) \o <<8, 6, 0, 0, 0>>)
            \o idats
            \o PngChunk(IEND, <<>>)

\* The row-major bytes _op_save_png collects from the tensor: arr[x, y, c]
\* masked to a byte, y outer, x inner.
SavePngFlat(t) ==
    [k \in 1..(TW(t) * TH(t) * 4) |->
        LET c == (k - 1) % 4
            x == ((k - 1) \div 4) % TW(t)
            y == ((k - 1) \div 4) \div TW(t)
        IN  And255(At(t, x, y, c))]

\* compress_level=max(0, min(9, int(level)))
PngLevel(level) == Max(0, Min(9, level))

\* ---------------------------------------------------------------- BMP codec

\* The integers _op_save_bmp collects from the tensor, row-major.
SaveBmpFlat(t) ==
    [k \in 1..(TW(t) * TH(t) * 4) |->
        LET c == (k - 1) % 4
            x == ((k - 1) \div 4) % TW(t)
            y == ((k - 1) \div 4) \div TW(t)
        IN  At(t, x, y, c)]

\* The pixel rows _write_bmp_file writes: rows bottom-up, each pixel B G R A.
BmpRows(width, height, pixels) ==
    [k \in 1..(width * height * 4) |->
        LET j == (k - 1) % 4
            x == ((k - 1) \div 4) % width
            frow == ((k - 1) \div 4) \div width
            y == height - 1 - frow
            i == y * width * 4 + x * 4
        IN  CASE j = 0 -> And255(pixels[i + 3])
              [] j = 1 -> And255(pixels[i + 2])
              [] j = 2 -> And255(pixels[i + 1])
              [] OTHER -> And255(pixels[i + 4])]

\* _write_bmp_file: the 14-byte file header, the 40-byte BITMAPINFOHEADER
\* and the pixel rows.
WriteBmpFile(width, height, pixels) ==
    LET row_bytes == width * 4
        bfOffBits == 14 + 40
        bfSize == bfOffBits + row_bytes * height
    IN  <<66, 77>> \o U32LE(bfSize) \o U16LE(0) \o U16LE(0) \o U32LE(bfOffBits)
            \o U32LE(40) \o U32LE(width) \o U32LE(height) \o U16LE(1) \o U16LE(32)
            \o U32LE(0) \o U32LE(row_bytes * height)
            \o U32LE(0) \o U32LE(0) \o U32LE(0) \o U32LE(0)
            \o BmpRows(width, height, pixels)

\* BmpPixelOffset with rows packed, not padded to four bytes.
BmpPixelOffsetPacked(pixel_offset, row_stride, bpp, w, h, top_down, row, col) ==
    LET src_row == IF top_down THEN row ELSE h - 1 - row
    IN  pixel_offset + src_row * (w * (bpp \div 8)) + col * (bpp \div 8)

\* BmpPixelOffset reading every file as top-down.
BmpPixelOffsetTopDown(pixel_offset, row_stride, bpp, w, h, top_down, row, col) ==
    pixel_offset + row * row_stride + col * (bpp \div 8)

\* The pixel loop of _decode_bmp: output row `row` comes from file row
\* src_row.  The first pixel, in loop order, whose bytes lie past the end of
\* the file ends the decode: by the truncation check when off + 3 is past
\* the end, by the read of data[off + 3] otherwise.
BmpPixelOffset(pixel_offset, row_stride, bpp, w, h, top_down, row, col) ==
    LET src_row == IF top_down THEN row ELSE h - 1 - row
    IN  pixel_offset + src_row * row_stride + col * (bpp \div 8)

\* _decode_bmp on the bytes of a file.
DecodeBmp(data) ==
    IF Len(data) < 54 \/ Slice(data, 0, 2) # <<66, 77>> THEN DecodeFail("Not a BMP file")
    ELSE
        LET pixel_offset == ReadU32LE(Slice(data, 10, 14))
            header_size == ReadU32LE(Slice(data, 14, 18))
            width_raw == ReadI32LE(Slice(data, 18, 22))
            height == ReadI32LE(Slice(data, 22, 26))
            planes == ReadU16LE(Slice(data, 26, 28))
            bpp == ReadU16LE(Slice(data, 28, 30))
            compression == ReadU32LE(Slice(data, 30, 34))
            top_down == height < 0
            h == Abs(height)
            w == Abs(width_raw)
            row_stride == ((bpp * w + 31) \div 32) * 4
            Off(row, col) == BmpPixelOffset(pixel_offset, row_stride, bpp, w, h, top_down, row, col)
            need == IF bpp = 32 THEN 4 ELSE 3
            bad == {k \in 0..(w * h - 1) : Off(k \div w, k % w) + need > Len(data)}
        IN  IF header_size < 40 THEN DecodeFail("Unsupported BMP header")
            ELSE IF planes # 1 THEN DecodeFail("Unsupported BMP planes")
            ELSE IF compression # 0 THEN DecodeFail("Compressed BMP not supported")
            ELSE IF bpp \notin {24, 32} THEN DecodeFail("Only 24-bit and 32-bit BMP are supported")
            ELSE IF bad # {}
            THEN LET first == CHOOSE k \in bad : \A j \in bad : k <= j
                 IN  IF Off(first \div w, first % w) + 3 > Len(data)
                     THEN DecodeFail("BMP data truncated")
                     ELSE DecodeFail("IndexError")
            ELSE [err |-> "none", w |-> w, h |-> h,
                  pixels |-> [k \in 1..(w * h * 4) |->
                      LET c == (k - 1) % 4
                          col == ((k - 1) \div 4) % w
                          row == ((k - 1) \div 4) \div w
                          off == Off(row, col)
                      IN  CASE c = 0 -> data[off + 3]
                            [] c = 1 -> data[off + 2]
                            [] c = 2 -> data[off + 1]
                            [] OTHER -> IF bpp = 32 THEN data[off + 4] ELSE 255]]

\* ------------------------------------------------------------------ loading

\* _guard_image_size: the message it raises, "none" when it passes.
GuardImageSize(width, height) ==
    IF width <= 0 \/ height <= 0 THEN "invalid image dimensions"
    ELSE IF width * height > 100000000 THEN "image too large"
    ELSE "none"

\* _make_tensor_from_pixels: row-major pixels (y outer, x inner) laid out as
\* the interpreter's [width][height][channel] tensor.
MakeTensorFromPixels(width, height, pixels) ==
    Tensor(width, height, [i \in 1..(width * height * 4) |->
        LET k == i - 1
            c == k % 4
            y == (k \div 4) % height
            x == (k \div 4) \div height
        IN  pixels[(y * width + x) * 4 + c + 1]])

\* The body of _op_load_png / _op_load_bmp after the decoder returned d.
LoadResult(d) ==
    LET guard == GuardImageSize(d.w, d.h)
    IN  IF d.err # "none" THEN [err |-> d.err, tensor |-> NoTensor]
        ELSE IF guard # "none" THEN [err |-> guard, tensor |-> NoTensor]
        ELSE IF Len(d.pixels) # d.w * d.h * 4
        THEN [err |-> "pixel buffer has unexpected length", tensor |-> NoTensor]
        ELSE [err |-> "none", tensor |-> MakeTensorFromPixels(d.w, d.h, d.pixels)]

\* ------------------------------------------------------- the codec operators

\* SAVE_PNG(img, path, level): _op_save_png.  Pillow writes the file when it
\* is installed; without it and without GDI+ the operator raises and writes
\* nothing.
SavePng(level, plan, cut) ==
    /\ heap.in1 # NoTensor
    /\ op' = "SAVE_PNG"
    /\ args' = [level |-> level]
    /\ IF env.pil
       THEN /\ disk' = [origin |-> "SAVE_PNG",
                        bytes |-> PngWrite(TW(heap.in1), TH(heap.in1), SavePngFlat(heap.in1),
                                           PngLevel(level), plan, cut)]
            /\ ret' = "OK"
            /\ err' = "none"
       ELSE /\ disk' = disk
            /\ ret' = "none"
            /\ err' = "SAVE_PNG not supported on this platform"
    /\ UNCHANGED <<heap, env, pool, joined, tall>>

\* SAVE_BMP(img, path): _op_save_bmp.
SaveBmp ==
    /\ heap.in1 # NoTensor
    /\ op' = "SAVE_BMP"
    /\ args' = NoArgs
    /\ disk' = [origin |-> "SAVE_BMP",
                bytes |-> WriteBmpFile(TW(heap.in1), TH(heap.in1), SaveBmpFlat(heap.in1))]
    /\ ret' = "OK"
    /\ err' = "none"
    /\ UNCHANGED <<heap, env, pool, joined, tall>>

\* The tail shared by LOAD_PNG and LOAD_BMP: the decoded tensor becomes the
\* returned object, or the call raises and returns nothing.
Loaded(name, d) ==
    LET r == LoadResult(d)
    IN  /\ op' = name
        /\ args' = NoArgs
        /\ heap' = [heap EXCEPT !.out = r.tensor]
        /\ ret' = IF r.err = "none" THEN "out" ELSE "none"
        /\ err' = r.err
        /\ UNCHANGED <<disk, env, pool, joined, tall>>

\* LOAD_PNG(path): _op_load_png over _load_png_file.
LoadPng ==
    IF disk = NoFile
    THEN /\ op' = "LOAD_PNG" /\ args' = NoArgs /\ ret' = "none"
         /\ err' = "file not found"
         /\ heap' = [heap EXCEPT !.out = NoTensor]
         /\ UNCHANGED <<disk, env, pool, joined, tall>>
    ELSE Loaded("LOAD_PNG", DecodePng(disk.bytes))

\* LOAD_BMP(path): _op_load_bmp over _load_bmp_file.
LoadBmp ==
    IF disk = NoFile
    THEN /\ op' = "LOAD_BMP" /\ args' = NoArgs /\ ret' = "none"
         /\ err' = "file not found"
         /\ heap' = [heap EXCEPT !.out = NoTensor]
         /\ UNCHANGED <<disk, env, pool, joined, tall>>
    ELSE Loaded("LOAD_BMP", DecodeBmp(disk.bytes))

\* Compression levels a caller passes (the operator clamps them to 0..9).
Levels == {-1, 0, 5, 6, 9, 12}

\* What the PNG writer chooses: <<filter plan, IDAT cut>>.
WriterChoices == {<<0, 0>>, <<1, 9>>, <<2, 0>>, <<3, 9>>, <<4, 0>>, <<4, 9>>}

CodecInit ==
    /\ heap \in {[in1 |-> t, in2 |-> NoTensor, out |-> NoTensor] : t \in StartImages}
    /\ disk = NoFile
    /\ env \in {[pil |-> p, gdi |-> FALSE, cpu |-> 1] : p \in BOOLEAN}
    /\ op = "init"
    /\ args = NoArgs
    /\ ret = "none"
    /\ err = "none"
    /\ pool = <<>>
    /\ joined = 0
    /\ tall = 1

CodecNext ==
    \/ \E level \in Levels, wc \in WriterChoices : SavePng(level, wc[1], wc[2])
    \/ SaveBmp
    \/ LoadPng
    \/ LoadBmp

SpecCodec == CodecInit /\ [][CodecNext]_vars

\* C1: a PNG file written by SAVE_PNG from a tensor with channels in 0..255
\* loads, through the pure decoder, to a tensor of the same width and height
\* with the same (r, g, b, a) at every coordinate, at every compression level.
PngRoundTrip ==
    (op = "LOAD_PNG" /\ disk.origin = "SAVE_PNG")
        => /\ err = "none"
           /\ ret = "out"
           /\ heap.out.shape = heap.in1.shape
           /\ \A x \in 0..(TW(heap.in1) - 1), y \in 0..(TH(heap.in1) - 1) :
                Px(heap.out, x, y) = Px(heap.in1, x, y)

PngRoundTripWitness ==
    /\ op = "LOAD_PNG"
    /\ disk.origin = "SAVE_PNG"
    /\ err = "none"
    /\ heap.in1 = PatternImage(2, 2, <<1, 1, 3>>)
    /\ heap.out = heap.in1
    /\ Len(disk.bytes) = 98

\* C2: a BMP file written by SAVE_BMP loads to a tensor of the same width
\* and height with the same (r, g, b, a) at every coordinate.
BmpRoundTrip ==
    (op = "LOAD_BMP" /\ disk.origin = "SAVE_BMP")
        => /\ err = "none"
           /\ ret = "out"
           /\ heap.out.shape = heap.in1.shape
           /\ \A x \in 0..(TW(heap.in1) - 1), y \in 0..(TH(heap.in1) - 1) :
                Px(heap.out, x, y) = Px(heap.in1, x, y)

BmpRoundTripWitness ==
    /\ op = "LOAD_BMP"
    /\ disk.origin = "SAVE_BMP"
    /\ err = "none"
    /\ heap.in1 = PatternImage(2, 2, <<1, 1, 3>>)
    /\ heap.out = heap.in1
    /\ Len(disk.bytes) = 54 + 16

\* ------------------------------------------------------------ the transforms

\* What a call leaves: the error it raised ("none" when it returned), the
\* object it returned ("none" when it raised) and the heap after it.
Raise(h, msg) == [err |-> msg, ret |-> "none", heap |-> h]
Return(h, id) == [err |-> "none", ret |-> id, heap |-> h]

\* A tensor built by the call from fresh Value objects and returned:
\* _value_tensor_from_ints, and every Value(TYPE_TNS, Tensor(...)) the
\* operators end with.
ReturnNew(h, t) == Return([h EXCEPT !.out = t], "out")

\* The x, y and c of the i-th value (1-based) of the flat data of a tensor
\* of height h: arrays of shape (w, h, 4) are flattened in C order.
XOf(i, h) == ((i - 1) \div 4) \div h
YOf(i, h) == ((i - 1) \div 4) % h
COf(i) == (i - 1) % 4

\* numpy's rint / round of the rational num/den (den > 0): to the nearest
\* integer, halves to the even one.
RoundHalfEven(num, den) ==
    LET q == num \div den
        r == num - q * den
    IN  IF 2 * r < den THEN q
        ELSE IF 2 * r > den THEN q + 1
        ELSE IF q % 2 = 0 THEN q ELSE q + 1

Clip(v, lo, hi) == IF v < lo THEN lo ELSE IF v > hi THEN hi ELSE v

\* NearestIndex cutting the fraction off instead of rounding.
NearestIndexFloor(i, src, target) ==
    Clip(((2 * i + 1) * src - target) \div (2 * target), 0, src - 1)

\* sx / sy of _resize_image_int: the source index of output index i,
\* round((i + 0.5) * src / target - 0.5) clipped to the source.
NearestIndex(i, src, target) ==
    Clip(RoundHalfEven((2 * i + 1) * src - target, 2 * target), 0, src - 1)

\* The bilinear branch of _resize_image_int for one channel: the fractional
\* source coordinate is num/den with den = 2*target on each axis.
BilinearChannel(t, i, j, c, target_w, target_h) ==
    LET dx == 2 * target_w
        dy == 2 * target_h
        nx == (2 * i + 1) * TW(t) - target_w
        ny == (2 * j + 1) * TH(t) - target_h
        fx == nx \div dx
        fy == ny \div dy
        rx == nx - fx * dx
        ry == ny - fy * dy
        x0 == Clip(fx, 0, TW(t) - 1)
        x1 == Clip(fx + 1, 0, TW(t) - 1)
        y0 == Clip(fy, 0, TH(t) - 1)
        y1 == Clip(fy + 1, 0, TH(t) - 1)
        num == At(t, x0, y0, c) * ((dy - ry) * (dx - rx))
               + At(t, x1, y0, c) * ((dy - ry) * rx)
               + At(t, x0, y1, c) * (ry * (dx - rx))
               + At(t, x1, y1, c) * (ry * rx)
    IN  Clip(RoundHalfEven(num, dx * dy), 0, 255)

\* _resize_image_int
ResizeImageInt(t, target_w, target_h, antialiasing) ==
    LET Near(x, y, c) == At(t, NearestIndex(x, TW(t), target_w),
                               NearestIndex(y, TH(t), target_h), c)
        Bil(x, y, c) == BilinearChannel(t, x, y, c, target_w, target_h)
    IN  IF antialiasing THEN Tensor(target_w, target_h, [i \in 1..(target_w * target_h * 4) |->
                                 Bil(XOf(i, target_h), YOf(i, target_h), COf(i))])
        ELSE Tensor(target_w, target_h, [i \in 1..(target_w * target_h * 4) |->
                 Near(XOf(i, target_h), YOf(i, target_h), COf(i))])

\* The tail _op_resize and _op_scale share once the target size is known.
ResizeTo(h, rule, target_w, target_h, antialiasing) ==
    LET src == h.in1
    IN  IF target_w <= 0 \/ target_h <= 0
        THEN Raise(h, rule \o " target dimensions must be positive")
        ELSE IF TH(src) = target_h /\ TW(src) = target_w
        THEN ReturnNew(h, Tensor(TW(src), TH(src), src.data))
        ELSE ReturnNew(h, ResizeImageInt(src, target_w, target_h, antialiasing # 0))

\* _op_resize
OpResize(h, target_w, target_h, antialiasing) ==
    ResizeTo(h, "RESIZE", target_w, target_h, antialiasing)

\* The target size _op_scale computes.  The FLT arguments are given in
\* halves (sx2 = 2*scale_x): factors when both are at most 8 in absolute
\* value, absolute sizes otherwise, floored either way.
ScaleTargetAbsolute(src_dim, s2, use_factors) == s2 \div 2
ScaleTarget(src_dim, s2, use_factors) ==
    IF use_factors THEN (src_dim * s2) \div 2 ELSE s2 \div 2

\* _op_scale
OpScale(h, sx2, sy2, antialiasing) ==
    LET use_factors == Abs(sx2) <= 16 /\ Abs(sy2) <= 16
    IN  ResizeTo(h, "SCALE", ScaleTarget(TW(h.in1), sx2, use_factors),
                 ScaleTarget(TH(h.in1), sy2, use_factors), antialiasing)

\* _op_invert, the single-threaded branch: R, G, B to 255 - (v & 0xFF),
\* alpha copied.
InvertImage(t) ==
    LET F(x, y, c) == IF c < 3 THEN 255 - And255(At(t, x, y, c)) ELSE At(t, x, y, c)
    IN  Tensor(TW(t), TH(t), [i \in 1..(TW(t) * TH(t) * 4) |->
            F(XOf(i, TH(t)), YOf(i, TH(t)), COf(i))])

\* _op_grayscale: the luminance is rint(0.299 R + 0.587 G + 0.114 B),
\* computed here in thousandths.
OpGrayscale(h) ==
    LET t == h.in1
        Lum(x, y) == Clip(RoundHalfEven(299 * At(t, x, y, 0) + 587 * At(t, x, y, 1)
                                        + 114 * At(t, x, y, 2), 1000), 0, 255)
        F(x, y, c) == IF c < 3 THEN Lum(x, y) ELSE At(t, x, y, 3)
    IN  ReturnNew(h, Tensor(TW(t), TH(t), [i \in 1..(TW(t) * TH(t) * 4) |->
                         F(XOf(i, TH(t)), YOf(i, TH(t)), COf(i))]))

\* _op_replace_color.  src and dst are the colour tensors' values, of
\* length 3 or 4.  When no pixel matches the operator returns the Value it
\* was given.
OpReplaceColor(h, src, dst) ==
    LET t == h.in1
        Match(x, y) == /\ At(t, x, y, 0) = src[1]
                       /\ At(t, x, y, 1) = src[2]
                       /\ At(t, x, y, 2) = src[3]
                       /\ (Len(src) = 4 => At(t, x, y, 3) = src[4])
        F(x, y, c) == IF Match(x, y) /\ (c < 3 \/ Len(dst) = 4)
                      THEN ClampChannel(dst[c + 1])
                      ELSE At(t, x, y, c)
    IN  IF Len(src) \notin {3, 4}
        THEN Raise(h, "REPLACE_COLOR: src_color must be a 1-D TNS length 3 or 4")
        ELSE IF Len(dst) \notin {3, 4}
        THEN Raise(h, "REPLACE_COLOR: dst_color must be a 1-D TNS length 3 or 4")
        ELSE IF ~(\E x \in 0..(TW(t) - 1), y \in 0..(TH(t) - 1) : Match(x, y))
        THEN Return(h, "in1")
        ELSE ReturnNew(h, Tensor(TW(t), TH(t), [i \in 1..(TW(t) * TH(t) * 4) |->
                              F(XOf(i, TH(t)), YOf(i, TH(t)), COf(i))]))

\* The rule name _op_thresh_r / _g / _b / _a pass for their channel.
ThreshRule(channel) == <<"THRESHHOLD_R", "THRESHHOLD_G", "THRESHHOLD_B", "THRESHHOLD_A">>[channel + 1]

\* OpThreshGeneric replacing every pixel at or above the value.
OpThreshAtLeast(h, channel, thresh, color) ==
    LET t == h.in1
        d == IF color = <<>> THEN <<0, 0, 0, 0>> ELSE color
        d_has_alpha == Len(d) = 4
        F(x, y, c) == IF At(t, x, y, channel) >= thresh /\ (c < 3 \/ d_has_alpha)
                      THEN ClampChannel(d[c + 1])
                      ELSE At(t, x, y, c)
    IN  IF Len(d) \notin {3, 4}
        THEN Raise(h, ThreshRule(channel) \o ": color must be a 1-D TNS length 3 or 4")
        ELSE ReturnNew(h, Tensor(TW(t), TH(t), [i \in 1..(TW(t) * TH(t) * 4) |->
                              F(XOf(i, TH(t)), YOf(i, TH(t)), COf(i))]))

\* _op_thresh_generic.  color is <<>> when the call passes no colour (the
\* replacement is then [0, 0, 0, 0]).
OpThreshGeneric(h, channel, thresh, color) ==
    LET t == h.in1
        d == IF color = <<>> THEN <<0, 0, 0, 0>> ELSE color
        d_has_alpha == Len(d) = 4
        F(x, y, c) == IF At(t, x, y, channel) = thresh /\ (c < 3 \/ d_has_alpha)
                      THEN ClampChannel(d[c + 1])
                      ELSE At(t, x, y, c)
    IN  IF Len(d) \notin {3, 4}
        THEN Raise(h, ThreshRule(channel) \o ": color must be a 1-D TNS length 3 or 4")
        ELSE ReturnNew(h, Tensor(TW(t), TH(t), [i \in 1..(TW(t) * TH(t) * 4) |->
                              F(XOf(i, TH(t)), YOf(i, TH(t)), COf(i))]))

\* NearestPaletteIndex taking the last of the nearest entries.
NearestPaletteIndexLast(pal, r, g, b) ==
    LET D2(i) == (r - pal[i][1]) * (r - pal[i][1]) + (g - pal[i][2]) * (g - pal[i][2])
                    + (b - pal[i][3]) * (b - pal[i][3])
    IN  CHOOSE i \in 1..Len(pal) :
            /\ \A j \in 1..Len(pal) : D2(i) <= D2(j)
            /\ \A j \in (i + 1)..Len(pal) : D2(j) > D2(i)

\* The palette index np.argmin picks for a pixel: the first entry of the
\* least squared RGB distance.
NearestPaletteIndex(pal, r, g, b) ==
    LET D2(i) == (r - pal[i][1]) * (r - pal[i][1]) + (g - pal[i][2]) * (g - pal[i][2])
                 + (b - pal[i][3]) * (b - pal[i][3])
    IN  CHOOSE i \in 1..Len(pal) :
            /\ \A j \in 1..Len(pal) : D2(i) <= D2(j)
            /\ \A j \in 1..(i - 1) : D2(j) > D2(i)

\* _op_cellshade.  pal is the palette's rows; entries is their common
\* length (a tensor of another shape is refused).
OpCellshade(h, pal, entries) ==
    LET t == h.in1
        Idx(x, y) == NearestPaletteIndex(pal, At(t, x, y, 0), At(t, x, y, 1), At(t, x, y, 2))
        F(x, y, c) == IF c < 3 \/ entries = 4 THEN pal[Idx(x, y)][c + 1] ELSE At(t, x, y, 3)
    IN  IF entries \notin {3, 4}
        THEN Raise(h, "CELLSHADE: colors must be a TNS of shape [N,3] or [N,4] or a single 1-D color")
        ELSE ReturnNew(h, Tensor(TW(t), TH(t), [i \in 1..(TW(t) * TH(t) * 4) |->
                              F(XOf(i, TH(t)), YOf(i, TH(t)), COf(i))]))

\* OpBlit taking (x, y) as a 0-based placement.
OpBlitZeroBased(h, x, y, mixalpha) ==
    LET src == h.in2
        dest == h.in1
        x0 == x
        y0 == y
        src_x0 == Max(0, -x0)
        src_y0 == Max(0, -y0)
        dst_x0 == Max(0, x0)
        dst_y0 == Max(0, y0)
        over_w == Min(TW(src) - src_x0, TW(dest) - dst_x0)
        over_h == Min(TH(src) - src_y0, TH(dest) - dst_y0)
        Inside(px, py) == /\ px >= dst_x0 /\ px < dst_x0 + over_w
                          /\ py >= dst_y0 /\ py < dst_y0 + over_h
        S(px, py, c) == At(src, px - dst_x0 + src_x0, py - dst_y0 + src_y0, c)
        Mixed(px, py, c) ==
            LET sa == Clip(S(px, py, 3), 0, 255)
                inv_sa == 255 - sa
            IN  IF c < 3 THEN (sa * S(px, py, c) + inv_sa * At(dest, px, py, c)) \div 255
                ELSE sa + (At(dest, px, py, 3) * inv_sa) \div 255
        F(px, py, c) ==
            Clip(IF ~Inside(px, py) THEN At(dest, px, py, c)
                 ELSE IF mixalpha # 0 THEN Mixed(px, py, c)
                 ELSE IF S(px, py, 3) # 0 THEN S(px, py, c)
                 ELSE At(dest, px, py, c), 0, 255)
    IN  IF x0 >= TW(dest) \/ y0 >= TH(dest) \/ x0 + TW(src) <= 0 \/ y0 + TH(src) <= 0
        THEN ReturnNew(h, Tensor(TW(dest), TH(dest), dest.data))
        ELSE IF over_w <= 0 \/ over_h <= 0
        THEN ReturnNew(h, Tensor(TW(dest), TH(dest), dest.data))
        ELSE ReturnNew(h, Tensor(TW(dest), TH(dest), [i \in 1..(TW(dest) * TH(dest) * 4) |->
                              F(XOf(i, TH(dest)), YOf(i, TH(dest)), COf(i))]))

\* _op_blit: in2 is src, in1 is dest, (x, y) the 1-based placement.
OpBlit(h, x, y, mixalpha) ==
    LET src == h.in2
        dest == h.in1
        x0 == x - 1
        y0 == y - 1
        src_x0 == Max(0, -x0)
        src_y0 == Max(0, -y0)
        dst_x0 == Max(0, x0)
        dst_y0 == Max(0, y0)
        over_w == Min(TW(src) - src_x0, TW(dest) - dst_x0)
        over_h == Min(TH(src) - src_y0, TH(dest) - dst_y0)
        Inside(px, py) == /\ px >= dst_x0 /\ px < dst_x0 + over_w
                          /\ py >= dst_y0 /\ py < dst_y0 + over_h
        S(px, py, c) == At(src, px - dst_x0 + src_x0, py - dst_y0 + src_y0, c)
        Mixed(px, py, c) ==
            LET sa == Clip(S(px, py, 3), 0, 255)
                inv_sa == 255 - sa
            IN  IF c < 3 THEN (sa * S(px, py, c) + inv_sa * At(dest, px, py, c)) \div 255
                ELSE sa + (At(dest, px, py, 3) * inv_sa) \div 255
        F(px, py, c) ==
            Clip(IF ~Inside(px, py) THEN At(dest, px, py, c)
                 ELSE IF mixalpha # 0 THEN Mixed(px, py, c)
                 ELSE IF S(px, py, 3) # 0 THEN S(px, py, c)
                 ELSE At(dest, px, py, c), 0, 255)
    IN  IF x0 >= TW(dest) \/ y0 >= TH(dest) \/ x0 + TW(src) <= 0 \/ y0 + TH(src) <= 0
        THEN ReturnNew(h, Tensor(TW(dest), TH(dest), dest.data))
        ELSE IF over_w <= 0 \/ over_h <= 0
        THEN ReturnNew(h, Tensor(TW(dest), TH(dest), dest.data))
        ELSE ReturnNew(h, Tensor(TW(dest), TH(dest), [i \in 1..(TW(dest) * TH(dest) * 4) |->
                              F(XOf(i, TH(dest)), YOf(i, TH(dest)), COf(i))]))

\* The least and the greatest of the first four corners' coordinate k.
CornerMin(corners, k) ==
    Min(Min(corners[1][k], corners[2][k]), Min(corners[3][k], corners[4][k]))
CornerMax(corners, k) ==
    Max(Max(corners[1][k], corners[2][k]), Max(corners[3][k], corners[4][k]))

\* _op_crop.  corners is the rows of the [N, 2] tensor.  The region is
\* flattened as the array lies (x outermost) and handed to
\* _make_tensor_from_pixels, which reads it as rows of pixels.
OpCrop(h, corners) ==
    LET img == h.in1
        left0 == Max(0, CornerMin(corners, 1) - 1)
        right0 == Min(TW(img) - 1, CornerMax(corners, 1) - 1)
        top0 == Max(0, CornerMin(corners, 2) - 1)
        bottom0 == Min(TH(img) - 1, CornerMax(corners, 2) - 1)
        out_w == right0 - left0 + 1
        out_h == bottom0 - top0 + 1
        flat_list == [i \in 1..(out_w * out_h * 4) |->
            At(img, left0 + (((i - 1) \div 4) \div out_h),
                    top0 + (((i - 1) \div 4) % out_h), (i - 1) % 4)]
    IN  IF Len(corners) < 4
        THEN Raise(h, "CROP: corners must be a 2-D TNS of shape [N,2] with N>=4")
        ELSE IF right0 < left0 \/ bottom0 < top0
        THEN Raise(h, "CROP: invalid crop rectangle")
        ELSE ReturnNew(h, MakeTensorFromPixels(out_w, out_h, flat_list))

\* Rot90 turning the same way for k = 1 and k = 3.
Rot90OneWay(t, k) ==
    LET F1(i, j, c) == At(t, j, TH(t) - 1 - i, c)
    IN  Tensor(TH(t), TW(t), [i \in 1..(TH(t) * TW(t) * 4) |->
            F1(XOf(i, TW(t)), YOf(i, TW(t)), COf(i))])

\* np.rot90(arr, k, axes=(0, 1)) for k = 1 and k = 3: the result has shape
\* (h, w, 4).
Rot90(t, k) ==
    LET F1(i, j, c) == At(t, j, TH(t) - 1 - i, c)
        F3(i, j, c) == At(t, TW(t) - 1 - j, i, c)
    IN  Tensor(TH(t), TW(t), [i \in 1..(TH(t) * TW(t) * 4) |->
            IF k = 1 THEN F1(XOf(i, TW(t)), YOf(i, TW(t)), COf(i))
            ELSE F3(XOf(i, TW(t)), YOf(i, TW(t)), COf(i))])

\* _op_rotate for whole degrees.  Apart from the quarter turns only the
\* angle 0 is followed: Pillow's rotate returns a copy of the masked bytes,
\* and the fallback samples every pixel at its own place and clamps it.
OpRotate(h, degrees, pil) ==
    LET t == h.in1
        norm == degrees % 360
        Masked(x, y, c) == And255(At(t, x, y, c))
        Clamped(x, y, c) == Max(0, Min(255, At(t, x, y, c)))
    IN  IF norm = 90 THEN ReturnNew(h, Rot90(t, 1))
        ELSE IF norm = 270 THEN ReturnNew(h, Rot90(t, 3))
        ELSE IF pil THEN ReturnNew(h, Tensor(TW(t), TH(t), [i \in 1..(TW(t) * TH(t) * 4) |->
                                          Masked(XOf(i, TH(t)), YOf(i, TH(t)), COf(i))]))
        ELSE ReturnNew(h, Tensor(TW(t), TH(t), [i \in 1..(TW(t) * TH(t) * 4) |->
                              Clamped(XOf(i, TH(t)), YOf(i, TH(t)), COf(i))]))

\* The Gaussian kernel of _op_blur and of EDGE's _gaussian_blur_gray in
\* thousandths, before the division by its sum: exp(-d*d / (2 sigma^2))
\* with sigma = max(0.5, radius / 2), for the radii 1 and 2.
GaussKernel(radius) ==
    IF radius = 1 THEN <<135, 1000, 135>> ELSE <<135, 607, 1000, 607, 135>>

RECURSIVE SumSeq(_)
SumSeq(s) == IF s = <<>> THEN 0 ELSE Head(s) + SumSeq(Tail(s))

\* _op_blur: both passes pad with the edge value; the result is rounded
\* once, after the vertical pass.
OpBlur(h, radius) ==
    LET t == h.in1
        kernel == GaussKernel(radius)
        total == SumSeq(kernel)
        ksize == radius * 2 + 1
        Tmp(x, y, c) == SumSeq([i \in 1..ksize |->
            kernel[i] * At(t, Clip(x + i - 1 - radius, 0, TW(t) - 1), y, c)])
        Out(x, y, c) == SumSeq([i \in 1..ksize |->
            kernel[i] * Tmp(x, Clip(y + i - 1 - radius, 0, TH(t) - 1), c)])
        F(x, y, c) == Clip(RoundHalfEven(Out(x, y, c), total * total), 0, 255)
    IN  IF radius < 0 THEN Raise(h, "BLUR radius must be >= 0")
        ELSE IF radius = 0 THEN ReturnNew(h, Tensor(TW(t), TH(t), t.data))
        ELSE ReturnNew(h, Tensor(TW(t), TH(t), [i \in 1..(TW(t) * TH(t) * 4) |->
                              F(XOf(i, TH(t)), YOf(i, TH(t)), COf(i))]))

\* ------------------------------------------------------------ the rasterizer

\* AlphaBlendPixel dividing to the nearest integer.
AlphaBlendPixelRounded(d, color) ==
    LET sa == ClampChannel(color[4])
        inv_sa == 255 - sa
    IN  << ClampChannel((sa * color[1] + inv_sa * d[1] + 127) \div 255),
           ClampChannel((sa * color[2] + inv_sa * d[2] + 127) \div 255),
           ClampChannel((sa * color[3] + inv_sa * d[3] + 127) \div 255),
           ClampChannel(sa + (d[4] * inv_sa + 127) \div 255) >>

\* _alpha_blend_pixel on one pixel d = <<r, g, b, a>> of the destination.
AlphaBlendPixel(d, color) ==
    LET sa == ClampChannel(color[4])
        inv_sa == 255 - sa
    IN  << ClampChannel((sa * color[1] + inv_sa * d[1]) \div 255),
           ClampChannel((sa * color[2] + inv_sa * d[2]) \div 255),
           ClampChannel((sa * color[3] + inv_sa * d[3]) \div 255),
           ClampChannel(sa + (d[4] * inv_sa) \div 255) >>

\* n successive blends of the same colour on one pixel.
RECURSIVE BlendTimes(_, _, _)
BlendTimes(d, color, n) ==
    IF n = 0 THEN d ELSE BlendTimes(AlphaBlendPixel(d, color), color, n - 1)

\* The array after the blend calls listed in blends (a sequence of in-bounds
\* <<x, y>>, one entry per call).  The calls of one operator all use one
\* colour and each touches one pixel, so a pixel ends as its value blended
\* as many times as it is listed.
BlendAll(t, blends, color) ==
    LET Count(x, y) == Cardinality({i \in DOMAIN blends : blends[i] = <<x, y>>})
        F(x, y, c) == BlendTimes(Px(t, x, y), color, Count(x, y))[c + 1]
    IN  Tensor(TW(t), TH(t), [i \in 1..(TW(t) * TH(t) * 4) |->
            F(XOf(i, TH(t)), YOf(i, TH(t)), COf(i))])

\* arr.copy() in _op_polygon and _op_ellipse: the object the copy of the
\* array in `id` is, a new one.
NdarrayCopyView(id) == id
NdarrayCopy(id) == "out"

\* draw_thick: the blend calls of one brush stamp, in order; blend() drops
\* the out-of-bounds ones.
DrawThick(cx, cy, thickness, w, h) ==
    LET rrad == Max(0, thickness \div 2)
        side == 2 * rrad + 1
        InBounds(p) == p[1] >= 0 /\ p[1] < w /\ p[2] >= 0 /\ p[2] < h
        InBrush(p) == /\ InBounds(p)
                      /\ (p[1] - cx) * (p[1] - cx) + (p[2] - cy) * (p[2] - cy) <= rrad * rrad
        square == [k \in 1..(side * side) |->
                      <<cx + ((k - 1) % side) - rrad, cy + ((k - 1) \div side) - rrad>>]
    IN  IF thickness <= 1
        THEN (IF InBounds(<<cx, cy>>) THEN << <<cx, cy>> >> ELSE <<>>)
        ELSE SelectSeq(square, InBrush)

\* The loop of draw_line from (x, y) with error term err_: the points it
\* stamps, in order.
RECURSIVE DrawLineFrom(_, _, _, _, _, _, _, _, _)
DrawLineFrom(x, y, x1, y1, dx, dy, sx, sy, err_) ==
    << <<x, y>> >> \o
    IF dx > dy
    THEN IF x = x1 THEN <<>>
         ELSE IF err_ - dy < 0
              THEN DrawLineFrom(x + sx, y + sy, x1, y1, dx, dy, sx, sy, err_ - dy + dx)
              ELSE DrawLineFrom(x + sx, y, x1, y1, dx, dy, sx, sy, err_ - dy)
    ELSE IF y = y1 THEN <<>>
         ELSE IF err_ - dx < 0
              THEN DrawLineFrom(x + sx, y + sy, x1, y1, dx, dy, sx, sy, err_ - dx + dy)
              ELSE DrawLineFrom(x, y + sy, x1, y1, dx, dy, sx, sy, err_ - dx)

\* draw_line: the Bresenham points from (x0, y0) to (x1, y1).
DrawLine(x0, y0, x1, y1) ==
    LET dx == Abs(x1 - x0)
        dy == Abs(y1 - y0)
        sx == IF x0 < x1 THEN 1 ELSE -1
        sy == IF y0 < y1 THEN 1 ELSE -1
    IN  DrawLineFrom(x0, y0, x1, y1, dx, dy, sx, sy,
                     IF dx > dy THEN dx \div 2 ELSE dy \div 2)

\* The blend calls of the outline: every segment's line, every point of it
\* stamped with the brush.
OutlineBlends(pts, thickness, w, h) ==
    Flatten([i \in 1..(Len(pts) - 1) |->
        LET line == DrawLine(pts[i][1], pts[i][2], pts[i + 1][1], pts[i + 1][2])
        IN  Flatten([k \in 1..Len(line) |-> DrawThick(line[k][1], line[k][2], thickness, w, h)])])

\* The crossings of the scanline yy + 0.5 with the edges, in edge order, as
\* exact fractions <<num, den>> (den > 0) of x1 + t * (x2 - x1),
\* t = (yy + 0.5 - y1) / (y2 - y1).
ScanCrossings(pts, yy) ==
    LET edges == [i \in 1..(Len(pts) - 1) |-> <<pts[i], pts[i + 1]>>]
        Crosses(e) == \/ (e[1][2] <= yy /\ yy < e[2][2])
                      \/ (e[2][2] <= yy /\ yy < e[1][2])
        hit == SelectSeq(edges, Crosses)
        Xi(e) == LET d == 2 * (e[2][2] - e[1][2])
                     n == e[1][1] * d + (2 * yy + 1 - 2 * e[1][2]) * (e[2][1] - e[1][1])
                 IN  IF d < 0 THEN <<-n, -d>> ELSE <<n, d>>
    IN  [i \in 1..Len(hit) |-> Xi(hit[i])]

\* xs.sort() on fractions.
RECURSIVE SortFractions(_)
SortFractions(xs) ==
    IF xs = <<>> THEN <<>>
    ELSE LET Leq(a, b) == a[1] * b[2] <= b[1] * a[2]
             m == CHOOSE i \in 1..Len(xs) : \A j \in 1..Len(xs) : Leq(xs[i], xs[j])
         IN  <<xs[m]>> \o SortFractions([i \in 1..(Len(xs) - 1) |->
                                            IF i < m THEN xs[i] ELSE xs[i + 1]])

CeilFraction(q) == -((-q[1]) \div q[2])
FloorFraction(q) == q[1] \div q[2]

\* The blend calls of the even-odd fill on scanline yy: the pixels between
\* the 1st and 2nd crossing, the 3rd and 4th, and so on.
ScanRowBlends(pts, yy, w) ==
    LET xs == SortFractions(ScanCrossings(pts, yy))
    IN  Flatten([p \in 1..(Len(xs) \div 2) |->
            LET x_start == Max(0, CeilFraction(xs[2 * p - 1]))
                x_end == Min(w - 1, FloorFraction(xs[2 * p]))
            IN  [k \in 1..(x_end - x_start + 1) |-> <<x_start + k - 1, yy>>]])

\* The blend calls of the scanline fill over the clipped bounding box.
FillBlends(pts, w, h) ==
    LET ys == {pts[i][2] : i \in DOMAIN pts}
        min_y == Max(0, CHOOSE v \in ys : \A u \in ys : v <= u)
        max_y == Min(h - 1, CHOOSE v \in ys : \A u \in ys : v >= u)
    IN  Flatten([k \in 1..(max_y - min_y + 1) |-> ScanRowBlends(pts, min_y + k - 1, w)])

\* All the blend calls of _op_polygon, in order.
PolygonBlends(pts, fill, thickness, w, h) ==
    IF fill # 0
    THEN FillBlends(pts, w, h)
         \o (IF thickness > 0 THEN OutlineBlends(pts, thickness, w, h) ELSE <<>>)
    ELSE OutlineBlends(pts, thickness, w, h)

\* The closure test of _op_polygon on the 0-based points: pts[0] != pts[-1].
RingOpenAbscissa(pts) == pts[1][1] # pts[Len(pts)][1]
RingOpen(pts) == pts[1] # pts[Len(pts)]

\* _op_polygon.  points is the rows of the [N, 2] tensor (1-based), color
\* the colour tensor's values.
OpPolygon(h, points, color, fill, thickness) ==
    LET pts == [i \in 1..Len(points) |-> <<points[i][1] - 1, points[i][2] - 1>>]
        new_arr == NdarrayCopy("in1")
        copied == [h EXCEPT ![new_arr] = h.in1]
        clamped == [i \in 1..4 |-> ClampChannel(color[i])]
        drawn == BlendAll(h.in1, PolygonBlends(pts, fill, thickness, TW(h.in1), TH(h.in1)),
                          clamped)
        after == [copied EXCEPT ![new_arr] = drawn]
    IN  IF Len(points) < 2 THEN Raise(h, "POLYGON needs at least 2 points")
        ELSE IF RingOpen(pts)
        THEN Raise(h, "POLYGON: first point must equal last point")
        ELSE IF Len(color) # 4
        THEN Raise(copied, "POLYGON color must be a 1-D TNS of length 4")
        ELSE ReturnNew(after, after[new_arr])

\* The pixels _op_ellipse blends, each once: inside or on the outer ellipse
\* and, for a ring, not strictly inside the inner one.  The float tests
\* nx*nx + ny*ny > 1.0 and < 1.0 are taken in exact arithmetic.
EllipseCovers(xx, yy, cx0, cy0, rx, ry, has_inner, inner_rx, inner_ry) ==
    LET dx == xx - cx0
        dy == yy - cy0
    IN  /\ xx >= cx0 - rx /\ xx <= cx0 + rx
        /\ yy >= cy0 - ry /\ yy <= cy0 + ry
        /\ ~(dx * dx * ry * ry + dy * dy * rx * rx > rx * rx * ry * ry)
        /\ ~(/\ has_inner
             /\ dx * dx * inner_ry * inner_ry + dy * dy * inner_rx * inner_rx
                    < inner_rx * inner_rx * inner_ry * inner_ry)

\* The radius test of _op_ellipse: rx <= 0 or ry <= 0.
RadiiRejectedBoth(rx, ry) == rx <= 0 /\ ry <= 0
RadiiRejected(rx, ry) == rx <= 0 \/ ry <= 0

\* _op_ellipse.  center is the centre tensor's values in the new form and
\* <<cx, cy>> in the legacy form (form = "legacy").
OpEllipse(h, form, center, rx, ry, color, fill, thickness) ==
    LET t == h.in1
        new_arr == NdarrayCopy("in1")
        copied == [h EXCEPT ![new_arr] = h.in1]
        clamped == [i \in 1..4 |-> ClampChannel(color[i])]
        cx0 == center[1] - 1
        cy0 == center[2] - 1
        inner_rx == Max(0, rx - thickness)
        inner_ry == Max(0, ry - thickness)
        has_inner == fill = 0 /\ inner_rx > 0 /\ inner_ry > 0
        F(x, y, c) == IF EllipseCovers(x, y, cx0, cy0, rx, ry, has_inner, inner_rx, inner_ry)
                      THEN AlphaBlendPixel(Px(t, x, y), clamped)[c + 1]
                      ELSE At(t, x, y, c)
        after == [copied EXCEPT ![new_arr] = Tensor(TW(t), TH(t), [i \in 1..(TW(t) * TH(t) * 4) |->
                                                 F(XOf(i, TH(t)), YOf(i, TH(t)), COf(i))])]
    IN  IF RadiiRejected(rx, ry) THEN Raise(h, "ELLIPSE radii must be positive")
        ELSE IF thickness <= 0 THEN Raise(h, "ELLIPSE thickness must be positive")
        ELSE IF Len(color) # 4
        THEN Raise(copied, "ELLIPSE color must be a 1-D TNS of length 4")
        ELSE IF form = "center" /\ Len(center) < 2
        THEN Raise(copied, "ELLIPSE center must be a 1-D TNS of length >= 2")
        ELSE ReturnNew(after, after[new_arr])

\* _gaussian_blur_2d of EDGE on a plane src (a function of <<x, y>>, in
\* thousandths of a luminance unit): np.convolve(mode='same') pads with
\* zeros; each pass is rounded to the thousandth.
GaussianBlur2d(src, nx, ny, radius) ==
    LET kernel == GaussKernel(radius)
        total == SumSeq(kernel)
        ksize == radius * 2 + 1
        grid == (0..(nx - 1)) \X (0..(ny - 1))
        tmp == [p \in grid |-> RoundHalfEven(SumSeq([i \in 1..ksize |->
                   LET x == p[1] + i - 1 - radius
                   IN  IF x < 0 \/ x >= nx THEN 0 ELSE kernel[i] * src[<<x, p[2]>>]]), total)]
    IN  [p \in grid |-> RoundHalfEven(SumSeq([i \in 1..ksize |->
            LET y == p[2] + i - 1 - radius
            IN  IF y < 0 \/ y >= ny THEN 0 ELSE kernel[i] * tmp[<<p[1], y>>]]), total)]

\* _op_edge.  np.convolve returns max(len(line), len(kernel)) values, so a
\* plane narrower or lower than the radius-2 kernel cannot be stored back
\* and the call ends in numpy's ValueError.
OpEdge(h) ==
    LET t == h.in1
        grid == (0..(TW(t) - 1)) \X (0..(TH(t) - 1))
        lum == [p \in grid |-> 299 * At(t, p[1], p[2], 0) + 587 * At(t, p[1], p[2], 1)
                               + 114 * At(t, p[1], p[2], 2)]
        small == GaussianBlur2d(lum, TW(t), TH(t), 1)
        large == GaussianBlur2d(lum, TW(t), TH(t), 2)
        mag == [p \in grid |-> Abs(small[p] - large[p])]
        maxv == CHOOSE v \in {mag[p] : p \in grid} : \A p \in grid : mag[p] <= v
        scaled == [p \in grid |-> IF maxv <= 0 THEN 0
                                  ELSE Clip(RoundHalfEven(mag[p] * 255, maxv), 0, 255)]
        F(x, y, c) == IF c < 3 THEN scaled[<<x, y>>] ELSE At(t, x, y, 3)
    IN  IF TW(t) < 5 \/ TH(t) < 5 THEN Raise(h, "ValueError")
        ELSE ReturnNew(h, Tensor(TW(t), TH(t), [i \in 1..(TW(t) * TH(t) * 4) |->
                              F(XOf(i, TH(t)), YOf(i, TH(t)), COf(i))]))

\* _op_invert on an image below the threading threshold.
OpInvert(h) == ReturnNew(h, InvertImage(h.in1))

\* ------------------------------------------------------- the transform calls

\* The images the transforms are called on: every size up to MaxW x MaxH in
\* two paintings, and one image large enough for EDGE's kernels.
CanvasPatterns == { <<1, 1, 3>>, <<5, 3, 1>> }
Canvases ==
    { PatternImage(w, h, p) : w \in 1..MaxW, h \in 1..MaxH, p \in CanvasPatterns }
        \cup { PatternImage(5, 5, <<1, 1, 3>>) }

\* The second image of a call (BLIT's src): alphas 200, 4, 0 and 255.
Stamp == PatternImage(2, 2, <<5, 3, 1>>)

\* Argument values the calls are tried with.
ScaleArgs == { <<2, 2>>, <<4, 4>>, <<1, 2>>, <<3, 1>>, <<0, 2>>, <<-2, 2>>, <<18, 2>>, <<17, 6>> }
CropArgs ==
    { << <<1, 1>>, <<2, 1>>, <<1, 2>>, <<2, 2>> >>,
      << <<5, 5>>, <<6, 5>>, <<5, 6>>, <<6, 6>> >>,
      << <<0, 0>>, <<9, 0>>, <<0, 9>>, <<9, 9>> >>,
      << <<1, 1>>, <<1, 1>>, <<1, 2>>, <<1, 2>> >>,
      << <<1, 1>>, <<2, 1>>, <<1, 2>> >> }
RotateArgs == { 0, 90, 270, -90, 450 }
BlitArgs == { <<1, 1>>, <<2, 1>>, <<2, 2>>, <<0, 0>>, <<3, 3>>, <<-1, -1>>, <<1, 2>>, <<6, 1>> }
BlurArgs == { -1, 0, 1, 2 }
PointArgs ==
    { << <<1, 1>>, <<3, 1>>, <<1, 3>>, <<1, 1>> >>,
      << <<1, 1>>, <<2, 1>>, <<2, 2>>, <<1, 2>>, <<1, 1>> >>,
      << <<1, 1>>, <<3, 2>>, <<1, 1>> >>,
      << <<1, 1>>, <<3, 2>>, <<3, 1>>, <<1, 2>>, <<1, 1>> >>,
      << <<2, 1>>, <<2, 1>> >>,
      << <<1, 1>>, <<2, 2>> >>,
      << <<1, 1>>, <<2, 1>>, <<1, 2>> >>,
      << <<1, 1>> >> }
ColorArgs == { <<300, -5, 0, 128>>, <<0, 0, 255, 255>>, <<1, 2, 3>> }
ThicknessArgs == { 0, 1, 2 }
RadiiArgs == { <<0, 1>>, <<1, -1>>, <<1, 1>>, <<2, 1>>, <<3, 3>> }
CenterArgs == { <<1, 1>>, <<2, 2>>, <<2>> }
SrcColorArgs == { <<255, 0, 0>>, <<255, 0, 0, 255>>, <<9, 9, 9>>, <<128, 64, 32, 200>>, <<1, 2>> }
DstColorArgs == { <<0, 0, 255>>, <<300, -5, 0, 999>>, <<1>> }
ThreshColorArgs == { <<>>, <<300, -5, 0>>, <<9, 8, 7, 6>>, <<1, 2>> }
PaletteArgs ==
    { << <<0, 0, 0>>, <<255, 255, 255>> >>,
      << <<255, 0, 0, 128>>, <<0, 0, 255, 64>> >>,
      << <<300, -5, 0>> >>,
      << <<10, 20, 30, 40>> >>,
      << <<0, 2, 0, 10>>, <<0, 0, 2, 20>>, <<0, 2, 0, 30>>, <<250, 0, 0, 50>> >>,
      << <<2, 0, 0>>, <<0, 0, 2>>, <<0, 2, 0>> >>,
      << <<1, 2>> >> }

\* A call is made on the start state; it leaves its name, its arguments and
\* what the operator r did.
Call(name, a, r) ==
    /\ op = "init"
    /\ op' = name
    /\ args' = a
    /\ heap' = r.heap
    /\ ret' = r.ret
    /\ err' = r.err
    /\ UNCHANGED <<disk, env, pool, joined, tall>>

Resize ==
    \E tw \in 0..(MaxW + 1), th \in 0..(MaxH + 1), aa \in {0, 1} :
        Call("RESIZE", [target_w |-> tw, target_h |-> th, antialiasing |-> aa],
             OpResize(heap, tw, th, aa))

Scale ==
    \E s \in ScaleArgs, aa \in {0, 1} :
        Call("SCALE", [sx2 |-> s[1], sy2 |-> s[2], antialiasing |-> aa],
             OpScale(heap, s[1], s[2], aa))

Crop == \E corners \in CropArgs : Call("CROP", [corners |-> corners], OpCrop(heap, corners))

Rotate ==
    \E degrees \in RotateArgs :
        Call("ROTATE", [degrees |-> degrees], OpRotate(heap, degrees, env.pil))

Blit ==
    \E at \in BlitArgs, mixalpha \in {0, 1} :
        Call("BLIT", [x |-> at[1], y |-> at[2], mixalpha |-> mixalpha],
             OpBlit(heap, at[1], at[2], mixalpha))

Polygon ==
    \E points \in PointArgs, color \in ColorArgs, fill \in {0, 1}, thickness \in ThicknessArgs :
        Call("POLYGON", [points |-> points, color |-> color, fill |-> fill,
                         thickness |-> thickness],
             OpPolygon(heap, points, color, fill, thickness))

\* The legacy form passes cx and cy as integers, so its centre always has
\* two values.
Ellipse ==
    \E form \in {"center", "legacy"}, center \in CenterArgs, rad \in RadiiArgs,
       color \in ColorArgs \ {<<0, 0, 255, 255>>}, fill \in {0, 1}, thickness \in ThicknessArgs :
        /\ form = "legacy" => Len(center) = 2
        /\ Call("ELLIPSE", [form |-> form, center |-> center, rx |-> rad[1], ry |-> rad[2],
                            color |-> color, fill |-> fill, thickness |-> thickness],
                OpEllipse(heap, form, center, rad[1], rad[2], color, fill, thickness))

Grayscale == Call("GRAYSCALE", NoArgs, OpGrayscale(heap))

Invert == Call("INVERT", NoArgs, OpInvert(heap))

Blur == \E radius \in BlurArgs : Call("BLUR", [radius |-> radius], OpBlur(heap, radius))

Edge == Call("EDGE", NoArgs, OpEdge(heap))

ReplaceColor ==
    \E src \in SrcColorArgs, dst \in DstColorArgs :
        Call("REPLACE_COLOR", [src |-> src, dst |-> dst], OpReplaceColor(heap, src, dst))

Threshold ==
    \E channel \in 0..3, thresh \in {0, 128, 255}, color \in ThreshColorArgs :
        Call(ThreshRule(channel), [thresh |-> thresh, color |-> color],
             OpThreshGeneric(heap, channel, thresh, color))

Cellshade ==
    \E pal \in PaletteArgs :
        Call("CELLSHADE", [palette |-> pal], OpCellshade(heap, pal, Len(pal[1])))

Init ==
    /\ heap \in {[in1 |-> t, in2 |-> Stamp, out |-> NoTensor] : t \in Canvases}
    /\ disk = NoFile
    /\ env \in {[pil |-> p, gdi |-> FALSE, cpu |-> 1] : p \in BOOLEAN}
    /\ op = "init"
    /\ args = NoArgs
    /\ ret = "none"
    /\ err = "none"
    /\ pool = <<>>
    /\ joined = 0
    /\ tall = 1

Next ==
    \/ Resize
    \/ Scale
    \/ Crop
    \/ Rotate
    \/ Blit
    \/ Polygon
    \/ Ellipse
    \/ Grayscale
    \/ Invert
    \/ Blur
    \/ Edge
    \/ ReplaceColor
    \/ Threshold
    \/ Cellshade

Spec == Init /\ [][Next]_vars

\* C3: every buffer a transform returns holds exactly w*h*4 channel values,
\* each in 0..255, also when the colour, replacement or palette arguments
\* carry values outside that range.
ChannelsStayInRange ==
    ret \in Ids => (WellFormed(heap[ret]) /\ InRange(heap[ret]))

\* C4: no transform changes a buffer it was given, whether the call returns
\* or raises.
InputsUntouched ==
    [][heap'.in1 = heap.in1 /\ heap'.in2 = heap.in2]_vars

InputsUntouchedWitness ==
    /\ op = "POLYGON" /\ ret = "out" /\ args.fill = 1 /\ args.thickness = 2
    /\ heap.in1 = PatternImage(2, 2, <<1, 1, 3>>)
    /\ heap.out # heap.in1

\* C5: the object a transform returns is a new one, never one of the
\* buffers it was given, also when the call changes no pixel.
ResultIsNewObject ==
    ret \in Ids => ret \notin {"in1", "in2"}

\* C6: RESIZE to the buffer's own width and height, and SCALE by (1, 1),
\* return a buffer equal to the input, with antialiasing on or off.
SameSizeIsIdentity ==
    (\/ (op = "RESIZE" /\ args.target_w = TW(heap.in1) /\ args.target_h = TH(heap.in1))
     \/ (op = "SCALE" /\ args.sx2 = 2 /\ args.sy2 = 2))
        => (err = "none" /\ ret \in Ids /\ heap[ret] = heap.in1)

SameSizeIsIdentityWitness ==
    /\ op = "SCALE" /\ args.sx2 = 2 /\ args.sy2 = 2 /\ args.antialiasing = 1
    /\ heap.in1 = PatternImage(2, 2, <<5, 3, 1>>)
    /\ ret = "out" /\ heap.out = heap.in1

\* C9: POLYGON on a ring whose first point differs from its last raises
\* "first point must equal last point" for every fill mode and thickness,
\* returns no buffer and leaves every buffer as it was.
OpenRingRejected ==
    [][(/\ op' = "POLYGON"
        /\ Len(args'.points) >= 2
        /\ args'.points[1] # args'.points[Len(args'.points)])
          => (/\ err' = "POLYGON: first point must equal last point"
              /\ ret' = "none"
              /\ heap' = heap)]_vars

OpenRingRejectedWitness ==
    /\ op = "POLYGON"
    /\ args.points = << <<1, 1>>, <<2, 1>>, <<1, 2>> >>
    /\ args.fill = 0 /\ args.thickness = 2
    /\ err = "POLYGON: first point must equal last point"
    /\ heap.out = NoTensor

\* C10: ELLIPSE raises when rx <= 0, ry <= 0 or thickness <= 0, in both
\* fill modes and both argument forms, returns no buffer and leaves every
\* buffer as it was.
BadEllipseRejected ==
    [][(/\ op' = "ELLIPSE"
        /\ (args'.rx <= 0 \/ args'.ry <= 0 \/ args'.thickness <= 0))
          => (/\ err' \in {"ELLIPSE radii must be positive", "ELLIPSE thickness must be positive"}
              /\ ret' = "none"
              /\ heap' = heap)]_vars

BadEllipseRejectedWitness ==
    /\ op = "ELLIPSE" /\ args.form = "center" /\ args.fill = 0
    /\ args.rx = 2 /\ args.ry = 1 /\ args.thickness = 0
    /\ err = "ELLIPSE thickness must be positive"
    /\ heap.out = NoTensor

\* ------------------------------------------------------- the parallel invert

\* The pixel count from which _op_invert hands the work to a thread pool.
InvertThreshold == 65536

\* max_workers of _op_invert; cpu = 0 stands for os.cpu_count() returning
\* None.
InvertWorkers(cpu, w) == Min(Max(1, IF cpu = 0 THEN 1 ELSE cpu), Max(1, w))

\* ranges of _op_invert: the column ranges [lo, hi) of the tasks.
InvertRangesShort(w, max_workers) ==
    LET chunk == (w + max_workers - 1) \div max_workers
    IN  [i \in 1..((w + chunk - 1) \div chunk) |->
            <<(i - 1) * chunk, Min((i - 1) * chunk + chunk, w) - 1>>]
InvertRanges(w, max_workers) ==
    LET chunk == (w + max_workers - 1) \div max_workers
    IN  [i \in 1..((w + chunk - 1) \div chunk) |->
            <<(i - 1) * chunk, Min((i - 1) * chunk + chunk, w)>>]

\* What np.empty_like may hold in a cell before it is written.
Uninitialised == {0, 255}

\* Whether _op_invert inverts in the calling thread.
InvertIsSerial ==
    \/ TW(heap.in1) * (TH(heap.in1) * tall) < InvertThreshold
    \/ InvertWorkers(env.cpu, TW(heap.in1)) = 1

\* out_arr after one statement of _invert_slice(lo, hi): the colour
\* channels (alpha = FALSE) or the alpha channel (alpha = TRUE) of the
\* columns lo..hi-1 are written from int_arr.
InvertSliceWrite(out_arr, int_arr, lo, hi, alpha) ==
    LET F(x, y, c) ==
            IF x >= lo /\ x < hi /\ ((c = 3) <=> alpha)
            THEN (IF c < 3 THEN 255 - And255(At(int_arr, x, y, c)) ELSE At(int_arr, x, y, 3))
            ELSE At(out_arr, x, y, c)
    IN  Tensor(TW(out_arr), TH(out_arr), [i \in 1..(TW(out_arr) * TH(out_arr) * 4) |->
            F(XOf(i, TH(out_arr)), YOf(i, TH(out_arr)), COf(i))])

\* INVERT(img) on the single-threaded branch: the whole call.
InvertSerial ==
    /\ op \in {"init", "again"}
    /\ InvertIsSerial
    /\ op' = "INVERT"
    /\ args' = NoArgs
    /\ heap' = [heap EXCEPT !.out = InvertImage(heap.in1)]
    /\ ret' = "out"
    /\ err' = "none"
    /\ pool' = <<>>
    /\ joined' = 0
    /\ UNCHANGED <<disk, env, tall>>

\* INVERT(img) on the threaded branch, up to the submission of the tasks:
\* out_arr is allocated unwritten and one task per range is queued.
InvertSubmit ==
    /\ op \in {"init", "again"}
    /\ ~InvertIsSerial
    /\ \E g \in Uninitialised :
          heap' = [heap EXCEPT !.out = Tensor(TW(heap.in1), TH(heap.in1),
                                              [i \in 1..Len(heap.in1.data) |-> g])]
    /\ pool' = [i \in 1..Len(InvertRanges(TW(heap.in1), InvertWorkers(env.cpu, TW(heap.in1)))) |->
                   [lo |-> InvertRanges(TW(heap.in1), InvertWorkers(env.cpu, TW(heap.in1)))[i][1],
                    hi |-> InvertRanges(TW(heap.in1), InvertWorkers(env.cpu, TW(heap.in1)))[i][2],
                    pc |-> "rgb"]]
    /\ joined' = 0
    /\ op' = "INVERT"
    /\ args' = NoArgs
    /\ ret' = "none"
    /\ err' = "none"
    /\ UNCHANGED <<disk, env, tall>>

\* Task i runs the colour statement of _invert_slice.
InvertSliceRgb(i) ==
    /\ pool[i].pc = "rgb"
    /\ heap' = [heap EXCEPT !.out = InvertSliceWrite(heap.out, heap.in1, pool[i].lo, pool[i].hi, FALSE)]
    /\ pool' = [pool EXCEPT ![i].pc = "alpha"]
    /\ UNCHANGED <<disk, env, op, args, ret, err, joined, tall>>

\* Task i runs the alpha statement of _invert_slice and ends.
InvertSliceAlpha(i) ==
    /\ pool[i].pc = "alpha"
    /\ heap' = [heap EXCEPT !.out = InvertSliceWrite(heap.out, heap.in1, pool[i].lo, pool[i].hi, TRUE)]
    /\ pool' = [pool EXCEPT ![i].pc = "done"]
    /\ UNCHANGED <<disk, env, op, args, ret, err, joined, tall>>

\* The caller's fut.result() on the next future, which returns once that
\* task has ended.
InvertJoin ==
    /\ op = "INVERT" /\ ret = "none"
    /\ joined < Len(pool)
    /\ pool[joined + 1].pc = "done"
    /\ joined' = joined + 1
    /\ UNCHANGED <<heap, disk, env, op, args, ret, err, pool, tall>>

\* After the last future the call wraps out_arr and returns it.
InvertReturn ==
    /\ op = "INVERT" /\ ret = "none"
    /\ pool # <<>>
    /\ joined = Len(pool)
    /\ ret' = "out"
    /\ UNCHANGED <<heap, disk, env, op, args, err, pool, joined, tall>>

\* The caller inverts the result in turn (once): the buffer first given
\* stays alive as in2.
InvertAgain ==
    /\ op = "INVERT" /\ ret = "out"
    /\ heap.in2 = NoTensor
    /\ heap' = [in1 |-> heap.out, in2 |-> heap.in1, out |-> NoTensor]
    /\ op' = "again"
    /\ ret' = "none"
    /\ pool' = <<>>
    /\ joined' = 0
    /\ UNCHANGED <<disk, env, args, err, tall>>

InvertInit ==
    /\ heap \in {[in1 |-> PatternImage(w, h, p), in2 |-> NoTensor, out |-> NoTensor] :
                    w \in 1..MaxW, h \in 1..MaxH, p \in CanvasPatterns}
    /\ disk = NoFile
    /\ env \in {[pil |-> TRUE, gdi |-> FALSE, cpu |-> n] : n \in 0..MaxCpu}
    /\ op = "init"
    /\ args = NoArgs
    /\ ret = "none"
    /\ err = "none"
    /\ pool = <<>>
    /\ joined = 0
    /\ tall \in {1, TallRows}

InvertNext ==
    \/ InvertSerial
    \/ InvertSubmit
    \/ \E i \in DOMAIN pool : InvertSliceRgb(i)
    \/ \E i \in DOMAIN pool : InvertSliceAlpha(i)
    \/ InvertJoin
    \/ InvertReturn
    \/ InvertAgain

SpecInvert == InvertInit /\ [][InvertNext]_vars

\* C7: inverting the result of an invert gives back the buffer first
\* inverted, on the single-threaded and on the threaded branch.
InvertTwiceIsIdentity ==
    (op = "INVERT" /\ ret = "out" /\ heap.in2 # NoTensor) => heap.out = heap.in2

InvertTwiceIsIdentityWitness ==
    /\ op = "INVERT" /\ ret = "out"
    /\ heap.in2 = PatternImage(2, 2, <<5, 3, 1>>)
    /\ Len(pool) = 2 /\ joined = 2
    /\ heap.out = heap.in2 /\ heap.in1 # heap.in2

\* C8: on the threaded branch (at least 65,536 pixels) the buffer INVERT
\* returns is, for every CPU count and every interleaving of the tasks, the
\* one the single-threaded branch computes.
ParallelInvertIsSerial ==
    (op = "INVERT" /\ ret = "out") => heap.out = InvertImage(heap.in1)

ParallelInvertIsSerialWitness ==
    /\ op = "INVERT" /\ ret = "out"
    /\ TW(heap.in1) * (TH(heap.in1) * tall) >= InvertThreshold
    /\ Len(pool) = 2 /\ joined = 2
    /\ pool[1].hi = 1 /\ pool[2].lo = 1
    /\ heap.in2 = NoTensor
    /\ heap.out # heap.in1

\* ------------------------------------------------- PNG filter type 4 alone

\* Bytes within PaethNear of either end of 0..255, and the two middle ones.
PaethNear == 3

PaethBytes == (0..PaethNear) \cup ((255 - PaethNear)..255) \cup {127, 128}

\* The inflated data of a 2 x 2 image whose two rows both have filter type
\* 4: the filter byte, then the filtered bytes f.a (.c) of the first pixel
\* and f.b (.x) of the second, the same in every channel.
PaethRaw(f, bpp) ==
    <<4>> \o [i \in 1..(2 * bpp) |-> IF i <= bpp THEN f.a ELSE f.b]
        \o <<4>> \o [i \in 1..(2 * bpp) |-> IF i <= bpp THEN f.c ELSE f.x]

\* _paeth(left, up, up_left) called on three bytes.
PaethCall ==
    /\ op = "init"
    /\ op' = "_paeth"
    /\ ret' = Paeth(args.a, args.b, args.c)
    /\ err' = "none"
    /\ UNCHANGED <<heap, disk, env, args, pool, joined, tall>>

\* The row loop of _decode_png over two filter-4 rows of two pixels, for
\* RGB (bpp 3) and RGBA (bpp 4) data.
PaethDecodeRows(bpp) ==
    LET rows == DecodeRows(PaethRaw(args, bpp), 2, 2, bpp, 0,
                           [i \in 1..(2 * bpp) |-> 0], <<>>)
    IN  /\ op = "init"
        /\ op' = "_decode_png"
        /\ ret' = [bpp |-> bpp, pixels |-> rows.pixels]
        /\ err' = rows.err
        /\ UNCHANGED <<heap, disk, env, args, pool, joined, tall>>

PaethInit ==
    /\ heap = [in1 |-> NoTensor, in2 |-> NoTensor, out |-> NoTensor]
    /\ disk = NoFile
    /\ env = [pil |-> FALSE, gdi |-> FALSE, cpu |-> 1]
    /\ op = "init"
    /\ args \in [a : PaethBytes, b : PaethBytes, c : PaethBytes, x : PaethBytes]
    /\ ret = "none"
    /\ err = "none"
    /\ pool = <<>>
    /\ joined = 0
    /\ tall = 1

PaethNext ==
    \/ PaethCall
    \/ \E bpp \in {3, 4} : PaethDecodeRows(bpp)

SpecPaeth == PaethInit /\ [][PaethNext]_vars

\* C11: for bytes a (left), b (up), c (up-left) the Paeth predictor returns
\* the one of a, b, c nearest to p = a + b - c, a before b before c on ties;
\* a row of filter type 4 is reconstructed byte by byte as (filtered byte +
\* predictor) mod 256, with left, up and up-left the reconstructed bytes one
\* pixel back, one row up and both, and 0 where there is none.
PaethPicksNearest ==
    LET Dist(a, b, c, v) == Abs((a + b - c) - v)
        Least(a, b, c) ==
            CHOOSE d \in {Dist(a, b, c, v) : v \in {a, b, c}} :
                \A v \in {a, b, c} : d <= Dist(a, b, c, v)
        Nearest(a, b, c) ==
            IF Dist(a, b, c, a) = Least(a, b, c) THEN a
            ELSE IF Dist(a, b, c, b) = Least(a, b, c) THEN b
            ELSE c
    IN  /\ op = "_paeth" => ret = Nearest(args.a, args.b, args.c)
        /\ op = "_decode_png" =>
            LET bpp == ret.bpp
                stride == 2 * bpp
                Filtered(r, i) == PaethRaw(args, bpp)[r * (stride + 1) + 1 + i + 1]
                Byte(r, i) ==
                    IF r < 0 \/ i < 0 THEN 0
                    ELSE ret.pixels[(r * 2 + (i \div bpp)) * 4 + (i % bpp) + 1]
            IN  /\ err = "none"
                /\ Len(ret.pixels) = 16
                /\ \A r \in 0..1, i \in 0..(stride - 1) :
                     Byte(r, i) = (Filtered(r, i)
                        + Nearest(Byte(r, i - bpp), Byte(r - 1, i), Byte(r - 1, i - bpp))) % 256

\* A tie between up and up-left (distance 1 each, left at 2) goes to up, and
\* the same three neighbours met in a decoded row.
PaethPicksNearestWitness ==
    \/ /\ op = "_paeth"
       /\ args.a = 0 /\ args.b = 3 /\ args.c = 1
       /\ ret = 3
    \/ /\ op = "_decode_png"
       /\ ret.bpp = 3
       /\ ret.pixels[1] = 1 /\ ret.pixels[5] = 3 /\ ret.pixels[9] = 0
       /\ ret.pixels[13] = (args.x + 3) % 256
       /\ args.x = 255

\* ------------------------------------------------------ files from elsewhere

\* A BMP file as another program may have written it: the 14-byte file
\* header and a 40-byte info header holding the fields of f, a gap up to
\* f.pixel_offset, then |height| rows of the padded stride, the last f.cut
\* bytes missing.  Byte k of the rows is BodyByte(k), so that every pixel
\* differs from every other.
BodyByte(k) == (k * 7 + 3) % 256

BmpStride(bpp, w) == ((bpp * w + 31) \div 32) * 4

BmpFile(f) ==
    LET w == Abs(f.width)
        h == Abs(f.height)
        gap == f.pixel_offset - 54
        full == gap + h * BmpStride(f.bpp, w)
        body == [k \in 1..(full - f.cut) |-> IF k <= gap THEN 0 ELSE BodyByte(k - gap)]
    IN  f.magic \o U32LE(54 + full) \o U16LE(0) \o U16LE(0) \o U32LE(f.pixel_offset)
            \o U32LE(f.header_size) \o U32LE(f.width) \o U32LE(f.height)
            \o U16LE(f.planes) \o U16LE(f.bpp) \o U32LE(f.compression)
            \o U32LE(full - gap) \o U32LE(0) \o U32LE(0) \o U32LE(0) \o U32LE(0)
            \o body

BmpPlain ==
    [magic |-> <<66, 77>>, pixel_offset |-> 54, header_size |-> 40, width |-> 2,
     height |-> 2, planes |-> 1, bpp |-> 32, compression |-> 0, cut |-> 0]

\* Well-formed files of every supported layout: both row orders, both
\* depths (24-bit rows are padded), pixel data right after the headers or
\* after a gap.
BmpLayouts ==
    {[BmpPlain EXCEPT !.width = w, !.height = s * h, !.bpp = b, !.pixel_offset = o] :
        w \in 1..MaxW, h \in 1..MaxH, s \in {-1, 1}, b \in {24, 32}, o \in {54, 58}}

\* Files with one structural field out of range.
BmpOddities ==
    {[BmpPlain EXCEPT !.width = w] : w \in {-2, -1, 0}}
        \cup {[BmpPlain EXCEPT !.height = 0]}
        \cup {[BmpPlain EXCEPT !.header_size = n] : n \in {0, 12, 39}}
        \cup {[BmpPlain EXCEPT !.planes = n] : n \in {0, 2}}
        \cup {[BmpPlain EXCEPT !.bpp = n, !.height = s] : n \in {1, 8, 16}, s \in {-2, 2}}
        \cup {[BmpPlain EXCEPT !.compression = n] : n \in {1, 3}}
        \cup {[BmpPlain EXCEPT !.magic = m] : m \in {<<77, 66>>, <<66, 65>>}}
        \cup {[BmpPlain EXCEPT !.cut = n, !.bpp = b, !.height = s] :
                n \in {1, 2, 4, 9, 16}, b \in {24, 32}, s \in {-2, 2}}
        \cup {[BmpPlain EXCEPT !.pixel_offset = 62, !.cut = 8]}

\* A PNG file as another program may have written it: the signature f.sig,
\* an IHDR chunk of the fields of f (when f.ihdr), one IDAT chunk and IEND.
\* The inflated data is one filter byte (f.filters, taken in turn) and
\* width * bpp filtered bytes per row, the last f.cut bytes missing and
\* f.extra bytes following; the IDAT chunk holds its deflate stream, or
\* bytes that are no deflate stream when f.zok is FALSE.
PngRaw(f) ==
    LET bpp == IF f.ctype = 6 THEN 4 ELSE 3
        stride == f.width * bpp
        rows == [r \in 1..f.height |->
                    <<f.filters[((r - 1) % Len(f.filters)) + 1]>>
                        \o [i \in 1..stride |-> BodyByte(r * stride + i)]]
        full == IF f.height = 0 THEN <<>> ELSE Flatten(rows)
    IN  Slice(full, 0, Len(full) - f.cut) \o [i \in 1..f.extra |-> 5]

PngFile(f) ==
    f.sig
        \o (IF f.ihdr
            THEN PngChunk(IHDR, U32BE(f.width) \o U32BE(f.height)
                                \o <<f.depth, f.ctype, f.comp, f.filt, f.inter>>)
            ELSE <<>>)
        \o PngChunk(IDAT, IF f.zok THEN ZlibCompress(PngRaw(f), 6) ELSE <<120, 156, 255>>)
        \o PngChunk(IEND, <<>>)

PngPlain ==
    [sig |-> PNG_SIGNATURE, ihdr |-> TRUE, width |-> 2, height |-> 2, depth |-> 8,
     ctype |-> 6, comp |-> 0, filt |-> 0, inter |-> 0, filters |-> <<0, 4>>,
     cut |-> 0, extra |-> 0, zok |-> TRUE]

\* Well-formed files: RGB and RGBA, every filter type.
PngLayouts ==
    {[PngPlain EXCEPT !.width = w, !.height = h, !.ctype = c, !.filters = ft] :
        w \in 1..MaxW, h \in 1..MaxH, c \in {2, 6}, ft \in {<<0, 4>>, <<1, 2>>, <<3, 3>>}}

\* Files that break one rule of the header, or two.
PngHeaderOddities ==
    {[PngPlain EXCEPT !.sig = g] :
        g \in {<<137, 80, 78, 71, 13, 10, 26, 11>>, <<0, 80, 78, 71, 13, 10, 26, 10>>,
               <<137, 80, 78, 71>>}}
        \cup {[PngPlain EXCEPT !.ihdr = FALSE]}
        \cup {[PngPlain EXCEPT !.comp = n] : n \in {1, 8}}
        \cup {[PngPlain EXCEPT !.filt = n] : n \in {1, 255}}
        \cup {[PngPlain EXCEPT !.inter = n] : n \in {1, 2}}
        \cup {[PngPlain EXCEPT !.depth = n, !.ctype = c] : n \in {1, 4, 16}, c \in {2, 6}}
        \cup {[PngPlain EXCEPT !.ctype = n] : n \in {0, 3, 4}}
        \cup {[PngPlain EXCEPT !.comp = 1, !.depth = 16], [PngPlain EXCEPT !.inter = 1, !.ctype = 3],
              [PngPlain EXCEPT !.depth = 4, !.ctype = 0], [PngPlain EXCEPT !.filt = 1, !.cut = 3]}

\* Files whose inflated data is short, long, has an unknown filter byte or
\* does not inflate, and files of no width or no height.
PngDataOddities ==
    {[PngPlain EXCEPT !.cut = n, !.ctype = c] : n \in {1, 7, 9, 14}, c \in {2, 6}}
        \cup {[PngPlain EXCEPT !.filters = ft, !.ctype = c, !.width = w] :
                ft \in {<<5, 0>>, <<0, 5>>, <<255, 255>>, <<4, 7>>}, c \in {2, 6}, w \in 0..MaxW}
        \cup {[PngPlain EXCEPT !.extra = n, !.ctype = c] : n \in {1, 3}, c \in {2, 6}}
        \cup {[PngPlain EXCEPT !.zok = FALSE]}
        \cup {[PngPlain EXCEPT !.width = 0, !.cut = n] : n \in {0, 1}}
        \cup {[PngPlain EXCEPT !.height = 0, !.width = w] : w \in {0, 2}}

ForeignFiles ==
    {[origin |-> "bmp file", bytes |-> BmpFile(f), fields |-> f] :
        f \in BmpLayouts \cup BmpOddities}
    \cup {[origin |-> "png file", bytes |-> PngFile(f), fields |-> f] :
        f \in PngLayouts \cup PngHeaderOddities \cup PngDataOddities}

FilesInit ==
    /\ heap = [in1 |-> NoTensor, in2 |-> NoTensor, out |-> NoTensor]
    /\ disk \in ForeignFiles
    /\ env = [pil |-> FALSE, gdi |-> FALSE, cpu |-> 1]
    /\ op = "init"
    /\ args = NoArgs
    /\ ret = "none"
    /\ err = "none"
    /\ pool = <<>>
    /\ joined = 0
    /\ tall = 1

FilesNext ==
    \/ LoadPng
    \/ LoadBmp

SpecFiles == FilesInit /\ [][FilesNext]_vars

\* C12: when LOAD_BMP returns a tensor for a file of positive width, the
\* pixel stored at file row r, column x, that is at pixel_offset + r * stride
\* + x * (bpp / 8) with stride = ((bpp * width + 31) div 32) * 4, is at
\* output (x, r) when the header height is negative and at (x, h - 1 - r)
\* when it is positive, as (byte 2, byte 1, byte 0, byte 3) for 32 bits per
\* pixel and (byte 2, byte 1, byte 0, 255) for 24.
BmpLayout ==
    LET data == disk.bytes
        pixel_offset == ReadU32LE(Slice(data, 10, 14))
        width == ReadI32LE(Slice(data, 18, 22))
        height == ReadI32LE(Slice(data, 22, 26))
        bpp == ReadU16LE(Slice(data, 28, 30))
        h == Abs(height)
        stride == ((bpp * width + 31) \div 32) * 4
    IN  (op = "LOAD_BMP" /\ err = "none" /\ width > 0) =>
            /\ ret = "out"
            /\ heap.out.shape = <<width, h, 4>>
            /\ \A r \in 0..(h - 1), x \in 0..(width - 1) :
                LET o == pixel_offset + r * stride + x * (bpp \div 8)
                    y == IF height < 0 THEN r ELSE h - 1 - r
                IN  Px(heap.out, x, y) =
                        <<data[o + 3], data[o + 2], data[o + 1],
                          IF bpp = 32 THEN data[o + 4] ELSE 255>>

\* A top-down 24-bit file of two padded rows behind a gap, and a bottom-up
\* 32-bit one, both loaded.
BmpLayoutWitness ==
    /\ op = "LOAD_BMP" /\ err = "none" /\ ret = "out"
    /\ \/ /\ disk.bytes = BmpFile([BmpPlain EXCEPT !.height = -2, !.bpp = 24, !.pixel_offset = 58])
          /\ Px(heap.out, 1, 1) = <<BodyByte(14), BodyByte(13), BodyByte(12), 255>>
       \/ /\ disk.bytes = BmpFile(BmpPlain)
          /\ Px(heap.out, 0, 0) = <<BodyByte(11), BodyByte(10), BodyByte(9), BodyByte(12)>>

\* ----------------------------------------------------- claims on one call

\* C13: BLIT(src, dest, x, y, mixalpha) returns a tensor of dest's size.  A
\* pixel (u, v) whose source coordinate (u - (x - 1), v - (y - 1)) lies inside
\* src is the blend (_alpha_blend_pixel) of dest's pixel with src's when
\* mixalpha is not 0, src's pixel when mixalpha is 0 and src's alpha is not
\* 0, dest's pixel when both are 0; every other pixel is dest's.  So without
\* overlap the result equals dest, and an opaque source pixel replaces the
\* pixel under it.
BlitPerPixel ==
    (op = "BLIT") =>
        LET src == heap.in2
            dest == heap.in1
            Covered(u, v) ==
                /\ u - (args.x - 1) \in 0..(TW(src) - 1)
                /\ v - (args.y - 1) \in 0..(TH(src) - 1)
            S(u, v) == Px(src, u - (args.x - 1), v - (args.y - 1))
            overlap == \E u \in 0..(TW(dest) - 1), v \in 0..(TH(dest) - 1) : Covered(u, v)
        IN  /\ err = "none" /\ ret = "out"
            /\ heap.out.shape = dest.shape
            /\ \A u \in 0..(TW(dest) - 1), v \in 0..(TH(dest) - 1) :
                 Px(heap.out, u, v) =
                    IF ~Covered(u, v) THEN Px(dest, u, v)
                    ELSE IF args.mixalpha # 0 THEN AlphaBlendPixel(Px(dest, u, v), S(u, v))
                    ELSE IF S(u, v)[4] # 0 THEN S(u, v)
                    ELSE Px(dest, u, v)
            /\ ~overlap => heap.out.data = dest.data
            /\ \A u \in 0..(TW(dest) - 1), v \in 0..(TH(dest) - 1) :
                 (Covered(u, v) /\ S(u, v)[4] = 255) => Px(heap.out, u, v) = S(u, v)

\* The 2 x 2 stamp blended onto the 5 x 5 canvas at (2, 2): its opaque pixel
\* replaces (2, 2), its transparent pixel leaves (2, 1), its alpha-200 pixel
\* mixes into (1, 1), the pixels around are the canvas's.
BlitPerPixelWitness ==
    /\ op = "BLIT" /\ ret = "out"
    /\ args = [x |-> 2, y |-> 2, mixalpha |-> 1]
    /\ TW(heap.in1) = 5
    /\ Px(heap.out, 2, 2) = Px(heap.in2, 1, 1)
    /\ Px(heap.in2, 1, 1)[4] = 255
    /\ Px(heap.out, 2, 1) = Px(heap.in1, 2, 1)
    /\ Px(heap.out, 1, 1) \notin {Px(heap.in1, 1, 1), Px(heap.in2, 0, 0)}
    /\ Px(heap.out, 0, 0) = Px(heap.in1, 0, 0)
    /\ Px(heap.out, 3, 3) = Px(heap.in1, 3, 3)

\* C14: THRESHHOLD_R/G/B/A with value v and replacement rep (default
\* [0, 0, 0, 0], its components clamped to 0..255 as every colour is):
\* every pixel whose channel equals exactly v gets rep's R, G, B, and rep's
\* alpha only when rep has 4 components; every pixel whose channel differs
\* from v keeps all 4 channels.  When every pixel's channel equals v the
\* whole image becomes rep.
ThresholdExact ==
    (op \in {ThreshRule(c) : c \in 0..3}) =>
        LET channel == CHOOSE c \in 0..3 : ThreshRule(c) = op
            rep == IF args.color = <<>> THEN <<0, 0, 0, 0>> ELSE args.color
            img == heap.in1
            Hit(x, y) == At(img, x, y, channel) = args.thresh
            xs == 0..(TW(img) - 1)
            ys == 0..(TH(img) - 1)
        IN  (Len(rep) \in {3, 4}) =>
              /\ err = "none" /\ ret = "out"
              /\ heap.out.shape = img.shape
              /\ \A x \in xs, y \in ys :
                   IF Hit(x, y)
                   THEN /\ \A c \in 0..2 : At(heap.out, x, y, c) = ClampChannel(rep[c + 1])
                        /\ At(heap.out, x, y, 3) =
                              IF Len(rep) = 4 THEN ClampChannel(rep[4]) ELSE At(img, x, y, 3)
                   ELSE Px(heap.out, x, y) = Px(img, x, y)
              /\ ((\A x \in xs, y \in ys : Hit(x, y)) /\ Len(rep) = 4) =>
                   \A x \in xs, y \in ys : Px(heap.out, x, y) = rep

\* THRESHHOLD_R at 128 with [9, 8, 7, 6] on a 2 x 2 image in which one pixel
\* has red 128 and the others do not: that pixel becomes the replacement.
ThresholdExactWitness ==
    /\ op = "THRESHHOLD_R" /\ ret = "out"
    /\ args = [thresh |-> 128, color |-> <<9, 8, 7, 6>>]
    /\ heap.in1.shape = <<2, 2, 4>>
    /\ Px(heap.in1, 0, 0) = <<128, 64, 32, 200>>
    /\ Px(heap.out, 0, 0) = <<9, 8, 7, 6>>
    /\ \A x, y \in 0..1 : <<x, y>> # <<0, 0>> =>
         /\ Px(heap.in1, x, y)[1] # 128
         /\ Px(heap.out, x, y) = Px(heap.in1, x, y)

\* C15: LOAD_PNG returns a tensor only for a file that starts with the
\* 8-byte PNG signature and whose IHDR has compression 0, filter method 0,
\* interlace 0, bit depth 8 and colour type 2 or 6.  A file that breaks one
\* of these raises and returns nothing: "Not a PNG file" or "Malformed PNG:
\* missing IHDR" (the format errors) for the signature and a missing IHDR, one
\* of the four unsupported-feature messages for the field checks, the message
\* of the broken field when only one is broken.
PngHeaderChecked ==
    LET f == disk.fields
        unsupported == {"Unsupported PNG compression or filter method",
                        "Interlaced PNG is not supported",
                        "Only 8-bit PNG is supported",
                        "Unsupported PNG color type"}
        fields_ok == /\ f.comp = 0 /\ f.filt = 0 /\ f.inter = 0
                     /\ f.depth = 8 /\ f.ctype \in {2, 6}
        Only(broken) ==
            /\ broken
            /\ Cardinality({k \in 1..4 :
                  <<f.comp # 0 \/ f.filt # 0, f.inter # 0, f.depth # 8,
                    f.ctype \notin {2, 6}>>[k]}) = 1
    IN  /\ (op = "LOAD_PNG" /\ disk.origin = "bmp file") =>
            /\ err = "Not a PNG file" /\ ret = "none" /\ heap.out = NoTensor
        /\ (op = "LOAD_PNG" /\ disk.origin = "png file") =>
            /\ (err = "none") =>
                  /\ Slice(disk.bytes, 0, 8) = PNG_SIGNATURE
                  /\ f.ihdr /\ fields_ok
            /\ (f.sig # PNG_SIGNATURE) => err = "Not a PNG file"
            /\ (f.sig = PNG_SIGNATURE /\ ~f.ihdr) => err = "Malformed PNG: missing IHDR"
            /\ (f.sig = PNG_SIGNATURE /\ f.ihdr /\ ~fields_ok) =>
                  /\ err \in unsupported
                  /\ Only(f.comp # 0 \/ f.filt # 0) =>
                        err = "Unsupported PNG compression or filter method"
                  /\ Only(f.inter # 0) => err = "Interlaced PNG is not supported"
                  /\ Only(f.depth # 8) => err = "Only 8-bit PNG is supported"
                  /\ Only(f.ctype \notin {2, 6}) => err = "Unsupported PNG color type"
            /\ (err # "none") => (ret = "none" /\ heap.out = NoTensor)

\* An interlaced RGBA file, otherwise well-formed, is refused.
PngHeaderCheckedWitness ==
    /\ op = "LOAD_PNG"
    /\ disk.origin = "png file"
    /\ disk.fields = [PngPlain EXCEPT !.inter = 1]
    /\ err = "Interlaced PNG is not supported"
    /\ ret = "none" /\ heap.out = NoTensor

\* C16: for a PNG file that passes the header checks and inflates, LOAD_PNG
\* raises a corrupt-data error ("PNG data truncated", "Unsupported PNG
\* filter") and returns nothing whenever the inflated data is shorter than
\* (stride + 1) * height, stride = width * 3 or width * 4, or some row's
\* leading filter byte is not in 0..4; when it returns, it has read exactly
\* (stride + 1) * height bytes (what follows them changes nothing) and the
\* tensor has width * height pixels.
PngDataChecked ==
    LET f == disk.fields
        bpp == IF f.ctype = 6 THEN 4 ELSE 3
        stride == f.width * bpp
        expected == (stride + 1) * f.height
        raw == PngRaw(f)
        short == Len(raw) < expected
        bad_filter == \E r \in 0..(f.height - 1) :
                        /\ r * (stride + 1) < Len(raw)
                        /\ raw[r * (stride + 1) + 1] \notin 0..4
    IN  (/\ op = "LOAD_PNG" /\ disk.origin = "png file"
         /\ f.sig = PNG_SIGNATURE /\ f.ihdr /\ f.zok
         /\ f.comp = 0 /\ f.filt = 0 /\ f.inter = 0 /\ f.depth = 8 /\ f.ctype \in {2, 6}) =>
            /\ (short \/ bad_filter) =>
                  /\ err \in {"PNG data truncated", "Unsupported PNG filter"}
                  /\ ret = "none" /\ heap.out = NoTensor
            /\ (err = "none") =>
                  /\ ret = "out"
                  /\ heap.out.shape = <<f.width, f.height, 4>>
                  /\ Len(heap.out.data) = f.width * f.height * 4
                  /\ heap.out = LoadResult(DecodePng(PngFile([f EXCEPT !.extra = 0]))).tensor

\* C17: LOAD_BMP returns no tensor for a BMP file whose header width is
\* negative or zero, whose height is zero, whose header size is below 40,
\* whose planes is not 1, whose bits per pixel is not 24 or 32, whose
\* compression is not 0, or in which a pixel of some row lies past the end
\* of the file; LOAD_PNG returns no tensor for a PNG file whose width or
\* height is zero.  Each of them raises.
StructuralFieldsChecked ==
    LET f == disk.fields
        w == Abs(f.width)
        h == Abs(f.height)
        past_end == \E r \in 0..(h - 1), x \in 0..(w - 1) :
                        f.pixel_offset + r * BmpStride(f.bpp, w) + (x + 1) * (f.bpp \div 8)
                            > Len(disk.bytes)
        Refused == err # "none" /\ ret = "none" /\ heap.out = NoTensor
    IN  /\ (/\ op = "LOAD_BMP" /\ disk.origin = "bmp file"
            /\ \/ f.width <= 0
               \/ f.height = 0
               \/ f.header_size < 40
               \/ f.planes # 1
               \/ f.bpp \notin {24, 32}
               \/ f.compression # 0
               \/ past_end) => Refused
        /\ (/\ op = "LOAD_PNG" /\ disk.origin = "png file"
            /\ (f.width = 0 \/ f.height = 0)) => Refused

\* ------------------------------------------------- saving on a failing disk

\* The lengths the file can have when a write of _write_bmp_file fails: the
\* bytes of the writes before it (the file header, the info header, then
\* one pixel per write).
BmpWritePoints(width, height) ==
    {0, 14} \cup {54 + 4 * j : j \in 0..(width * height - 1)}

\* SAVE_BMP when open() raises: nothing is created or truncated.
SaveBmpOpenFails ==
    /\ heap.in1 # NoTensor
    /\ op' = "SAVE_BMP"
    /\ args' = NoArgs
    /\ disk' = disk
    /\ ret' = "none"
    /\ err' = "SAVE_BMP failed: OSError"
    /\ UNCHANGED <<heap, env, pool, joined, tall>>

\* SAVE_BMP when a handle.write raises after n bytes (disk full, device
\* error): open(path, "wb") has created or emptied the file, the `with`
\* block closes it, _op_save_bmp turns the exception into its own error.
\* Nothing removes the file.
SaveBmpWriteFails(n) ==
    /\ heap.in1 # NoTensor
    /\ n \in BmpWritePoints(TW(heap.in1), TH(heap.in1))
    /\ op' = "SAVE_BMP"
    /\ args' = NoArgs
    /\ disk' = [origin |-> "SAVE_BMP failed",
                bytes |-> Slice(WriteBmpFile(TW(heap.in1), TH(heap.in1), SaveBmpFlat(heap.in1)),
                                0, n)]
    /\ ret' = "none"
    /\ err' = "SAVE_BMP failed: OSError"
    /\ UNCHANGED <<heap, env, pool, joined, tall>>

WriteInit ==
    /\ heap \in {[in1 |-> t, in2 |-> NoTensor, out |-> NoTensor] : t \in StartImages}
    /\ disk = NoFile
    /\ env \in {[pil |-> p, gdi |-> FALSE, cpu |-> 1] : p \in BOOLEAN}
    /\ op = "init"
    /\ args = NoArgs
    /\ ret = "none"
    /\ err = "none"
    /\ pool = <<>>
    /\ joined = 0
    /\ tall = 1

WriteNext ==
    \/ \E level \in {0, 9}, wc \in {<<0, 0>>, <<4, 9>>} : SavePng(level, wc[1], wc[2])
    \/ SaveBmp
    \/ SaveBmpOpenFails
    \/ \E n \in BmpWritePoints(MaxW, MaxH) : SaveBmpWriteFails(n)
    \/ LoadPng
    \/ LoadBmp

SpecWrite == WriteInit /\ [][WriteNext]_vars

\* C18: a save that fails at any step, a failing write part-way through the
\* pixel rows included, leaves no partial or truncated file: the path holds
\* what it held before, or nothing.  A load that fails returns no tensor.
NoPartialWrites ==
    [][/\ (op' \in {"SAVE_BMP", "SAVE_PNG"} /\ err' # "none") =>
            (disk' = disk \/ disk' = NoFile)
       /\ (op' \in {"LOAD_BMP", "LOAD_PNG"} /\ err' # "none") =>
            (ret' = "none" /\ heap'.out = NoTensor)]_vars

\* ------------------------------------------------------- rotating twice

\* ROTATE called on the tensor a first ROTATE returned; the caller keeps
\* the first image (in2).
RotateBack(degrees) ==
    LET r == OpRotate([in1 |-> heap.out, in2 |-> heap.in1, out |-> NoTensor],
                      degrees, env.pil)
    IN  /\ op = "ROTATE" /\ ret = "out"
        /\ heap.in2 = NoTensor
        /\ op' = "ROTATE"
        /\ args' = [degrees |-> degrees, first |-> args.degrees]
        /\ heap' = r.heap
        /\ ret' = r.ret
        /\ err' = r.err
        /\ UNCHANGED <<disk, env, pool, joined, tall>>

RotateInit ==
    /\ heap \in {[in1 |-> t, in2 |-> NoTensor, out |-> NoTensor] :
                    t \in StartImages \cup {PatternImage(MaxW + 1, MaxH, <<1, 1, 3>>)}}
    /\ disk = NoFile
    /\ env \in {[pil |-> p, gdi |-> FALSE, cpu |-> 1] : p \in BOOLEAN}
    /\ op = "init"
    /\ args = NoArgs
    /\ ret = "none"
    /\ err = "none"
    /\ pool = <<>>
    /\ joined = 0
    /\ tall = 1

RotateNext ==
    \/ Rotate
    \/ \E degrees \in RotateArgs : RotateBack(degrees)

SpecRotate == RotateInit /\ [][RotateNext]_vars

\* C19: ROTATE by an angle that is 90 or 270 modulo 360 returns a tensor of
\* dimensions (h, w) holding the source's pixels rearranged: every pixel
\* value occurs in the result as often as in the source.  Rotating by 90 and
\* then the result by 270 gives back the first image.
QuarterTurnLossless ==
    LET src == heap.in1
        Places(t) == (0..(TW(t) - 1)) \X (0..(TH(t) - 1))
        Count(t, p) == Cardinality({xy \in Places(t) : Px(t, xy[1], xy[2]) = p})
        Pixels(t) == {Px(t, xy[1], xy[2]) : xy \in Places(t)}
    IN  /\ (op = "ROTATE" /\ args.degrees % 360 \in {90, 270}) =>
              /\ err = "none" /\ ret = "out"
              /\ heap.out.shape = <<TH(src), TW(src), 4>>
              /\ \A p \in Pixels(src) \cup Pixels(heap.out) :
                    Count(heap.out, p) = Count(src, p)
        /\ (/\ op = "ROTATE" /\ heap.in2 # NoTensor
            /\ args.first % 360 = 90 /\ args.degrees % 360 = 270) =>
              heap.out = heap.in2

\* A 3 x 2 image (for MaxW = 2) of six different pixels turned by 90 into a
\* 2 x 3 one and back by 270.
QuarterTurnLosslessWitness ==
    /\ op = "ROTATE" /\ ret = "out"
    /\ heap.in2 = PatternImage(MaxW + 1, MaxH, <<1, 1, 3>>)
    /\ args = [degrees |-> 270, first |-> 90]
    /\ heap.in1.shape = <<MaxH, MaxW + 1, 4>>
    /\ heap.in1.data # heap.in2.data
    /\ Px(heap.in1, 0, 0) # Px(heap.in2, 0, 0)
    /\ heap.out = heap.in2

\* ------------------------------------------------------- checks and the copy

\* C20: a POLYGON or ELLIPSE call that raises, whichever argument check
\* fails, raises before the output buffer exists: no copy of the image
\* has been made and every buffer is as it was.
ChecksBeforeCopy ==
    [][(op' \in {"POLYGON", "ELLIPSE"} /\ err' # "none") =>
          (ret' = "none" /\ heap'.out = NoTensor /\ heap' = heap)]_vars

\* ------------------------------------------------- files of declared sizes

\* A PNG file whose IHDR declares w x h (8-bit RGBA, not interlaced) and
\* whose one IDAT chunk inflates to raw, whatever w and h promise.
PngDeclaring(w, h, raw) ==
    PNG_SIGNATURE
        \o PngChunk(IHDR, U32BE(w) \o U32BE(h) \o <<8, 6, 0, 0, 0>>)
        \o PngChunk(IDAT, ZlibCompress(raw, 6))
        \o PngChunk(IEND, <<>>)

\* Declared sizes at, above and below the cap of _guard_image_size, and
\* sizes with a zero; short inflated data.
DeclaredSizes ==
    { <<10000, 10000>>, <<10001, 10000>>, <<20000, 20000>>, <<100000001, 1>>,
      <<1, 100000001>>, <<0, 2>>, <<2, 0>>, <<0, 0>>, <<1, 1>>, <<2, 1>> }

HeldData == { <<>>, <<0>>, <<0, 0>>, <<0, 1, 2, 3, 4>>, <<0, 1, 2, 3, 4, 5, 6, 7, 8>> }

DeclaringFiles ==
    {[origin |-> "png file", bytes |-> PngDeclaring(s[1], s[2], raw),
      fields |-> [width |-> s[1], height |-> s[2]]] : s \in DeclaredSizes, raw \in HeldData}
    \cup {[origin |-> "bmp file", bytes |-> BmpFile(f), fields |-> f] :
            f \in {[BmpPlain EXCEPT !.width = w, !.height = h, !.bpp = b] :
                     w \in {0, 1}, h \in {-1, 0, 2}, b \in {24, 32}}}

GuardInit ==
    /\ heap = [in1 |-> NoTensor, in2 |-> NoTensor, out |-> NoTensor]
    /\ disk \in DeclaringFiles
    /\ env = [pil |-> FALSE, gdi |-> FALSE, cpu |-> 1]
    /\ op = "init"
    /\ args = NoArgs
    /\ ret = "none"
    /\ err = "none"
    /\ pool = <<>>
    /\ joined = 0
    /\ tall = 1

GuardNext ==
    \/ LoadPng
    \/ LoadBmp

SpecGuard == GuardInit /\ [][GuardNext]_vars

\* C21: a load of a file declaring a width times height above 100,000,000
\* or a dimension of zero raises the size guard's error ("image too large",
\* "invalid image dimensions"), returns nothing, and the decoder has put no
\* pixel in its list before it.
GuardBeforePixels ==
    LET f == disk.fields
        refused_size == /\ \/ f.width = 0
                           \/ f.height = 0
                           \/ Abs(f.width) * Abs(f.height) > 100000000
        guarded == /\ err \in {"image too large", "invalid image dimensions"}
                   /\ ret = "none" /\ heap.out = NoTensor
    IN  /\ (op = "LOAD_PNG" /\ disk.origin = "png file" /\ refused_size) =>
              (guarded /\ DecodePng(disk.bytes).pixels = <<>>)
        /\ (op = "LOAD_BMP" /\ disk.origin = "bmp file" /\ refused_size) =>
              (guarded /\ DecodeBmp(disk.bytes).pixels = <<>>)

\* ------------------------------------------------------- one blend call

\* blend(px, py) of _op_polygon on the array being drawn (heap.out, the copy
\* of the image): nothing outside the array, _alpha_blend_pixel inside.
PolygonBlend(px, py, color) ==
    LET t == heap.out
        w == TW(t)
        h == TH(t)
    IN  /\ op = "init"
        /\ op' = "blend"
        /\ args' = [px |-> px, py |-> py, color |-> color]
        /\ heap' = IF px < 0 \/ px >= w \/ py < 0 \/ py >= h THEN heap
                   ELSE [heap EXCEPT !.out = BlendAll(t, << <<px, py>> >>, color)]
        /\ UNCHANGED <<disk, env, ret, err, pool, joined, tall>>

\* Colours with channels and alphas inside and outside 0..255.
BlendColors ==
    { <<r, 255 - r, 17, a>> : r \in {-45, 0, 90, 255, 300},
                              a \in {-5, 0, 1, 128, 254, 255, 300} }

\* The image has been copied (new_arr = arr.copy()); no pixel is drawn yet.
BlendInit ==
    /\ heap \in {[in1 |-> t, in2 |-> NoTensor, out |-> t] : t \in StartImages}
    /\ disk = NoFile
    /\ env = [pil |-> FALSE, gdi |-> FALSE, cpu |-> 1]
    /\ op = "init"
    /\ args = NoArgs
    /\ ret = "none"
    /\ err = "none"
    /\ pool = <<>>
    /\ joined = 0
    /\ tall = 1

BlendNext ==
    \E px \in -1..MaxW, py \in -1..MaxH, color \in BlendColors : PolygonBlend(px, py, color)

SpecBlend == BlendInit /\ [][BlendNext]_vars

\* C22: a blend of colour (r, g, b, a) at a position outside the array
\* changes nothing; inside, with a clamped to 0..255, it changes that pixel
\* alone, to clamp((a*c + (255-a)*dc) div 255) per colour channel and
\* clamp(a + (da*(255-a)) div 255) for alpha.  So a = 0 leaves the pixel as
\* it was and a = 255 sets it to (r, g, b, 255) when r, g, b are in 0..255.
BlendPixelRule ==
    LET src == heap.in1
        dst == heap.out
        px == args.px
        py == args.py
        c == args.color
        Cl(v) == IF v < 0 THEN 0 ELSE IF v > 255 THEN 255 ELSE v
        a == Cl(c[4])
        d == Px(src, px, py)
    IN  (op = "blend") =>
            IF px \notin 0..(TW(src) - 1) \/ py \notin 0..(TH(src) - 1)
            THEN dst = src
            ELSE /\ dst.shape = src.shape
                 /\ \A x \in 0..(TW(src) - 1), y \in 0..(TH(src) - 1) :
                        <<x, y>> # <<px, py>> => Px(dst, x, y) = Px(src, x, y)
                 /\ Px(dst, px, py) =
                        << Cl((a * c[1] + (255 - a) * d[1]) \div 255),
                           Cl((a * c[2] + (255 - a) * d[2]) \div 255),
                           Cl((a * c[3] + (255 - a) * d[3]) \div 255),
                           Cl(a + (d[4] * (255 - a)) \div 255) >>
                 /\ (a = 0) => Px(dst, px, py) = d
                 /\ (a = 255 /\ \A k \in 1..3 : c[k] \in 0..255) =>
                        Px(dst, px, py) = <<c[1], c[2], c[3], 255>>

\* Half-transparent (90, 165, 17) over the pixel (128, 64, 32, 200).
BlendPixelRuleWitness ==
    /\ op = "blend"
    /\ args = [px |-> 0, py |-> 0, color |-> <<90, 165, 17, 128>>]
    /\ Px(heap.in1, 0, 0) = <<128, 64, 32, 200>>
    /\ Px(heap.out, 0, 0) = <<108, 114, 24, 227>>
    /\ TW(heap.in1) = MaxW /\ TH(heap.in1) = MaxH

\* ------------------------------------------------------- resizing wide rows

\* The longest row RESIZE is tried on and to.
NearestDim == 7

\* RESIZE to every width up to NearestDim and every height up to MaxH + 1.
ResizeWide ==
    \E tw \in 0..NearestDim, th \in 0..(MaxH + 1), aa \in {0, 1} :
        Call("RESIZE", [target_w |-> tw, target_h |-> th, antialiasing |-> aa],
             OpResize(heap, tw, th, aa))

\* Images of every width up to NearestDim whose pixels differ along a row
\* (and, two rows high, between the rows).
NearestInit ==
    /\ heap \in {[in1 |-> PatternImage(w, h, <<1, 1, 3>>), in2 |-> NoTensor, out |-> NoTensor] :
                    w \in 1..NearestDim, h \in 1..MaxH}
    /\ disk = NoFile
    /\ env = [pil |-> FALSE, gdi |-> FALSE, cpu |-> 1]
    /\ op = "init"
    /\ args = NoArgs
    /\ ret = "none"
    /\ err = "none"
    /\ pool = <<>>
    /\ joined = 0
    /\ tall = 1

NearestNext == ResizeWide

SpecNearest == NearestInit /\ [][NearestNext]_vars

\* C23: RESIZE with a target width or height of zero or less raises.  Without
\* antialiasing and to another size, output pixel (i, j) is source pixel
\* (sx(i), sy(j)), s(k) being an integer nearest to
\* (k + 0.5) * srcDim / targetDim - 0.5 brought into 0..srcDim - 1; the map
\* the code uses is within the source and never decreases.
NearestNeighbour ==
    LET src == heap.in1
        tw == args.target_w
        th == args.target_h
        \* twice the distance of q from (k + 0.5) * s / t - 0.5, times t
        Off(q, k, s, t) == Abs(2 * t * q - ((2 * k + 1) * s - t))
        Rounds(k, s, t) == {Clip(q, 0, s - 1) : q \in {q \in -1..s : Off(q, k, s, t) <= t}}
        Monotone(s, t) ==
            /\ \A k \in 0..(t - 1) : NearestIndex(k, s, t) \in 0..(s - 1)
            /\ \A k \in 0..(t - 2) : NearestIndex(k, s, t) <= NearestIndex(k + 1, s, t)
    IN  (op = "RESIZE") =>
            /\ (tw <= 0 \/ th <= 0) =>
                  /\ err = "RESIZE target dimensions must be positive"
                  /\ ret = "none" /\ heap.out = NoTensor
            /\ (tw > 0 /\ th > 0 /\ args.antialiasing = 0 /\ <<tw, th>> # <<TW(src), TH(src)>>) =>
                  /\ err = "none" /\ ret = "out"
                  /\ heap.out.shape = <<tw, th, 4>>
                  /\ Monotone(TW(src), tw) /\ Monotone(TH(src), th)
                  /\ \A i \in 0..(tw - 1), j \in 0..(th - 1) :
                        \E x \in Rounds(i, TW(src), tw), y \in Rounds(j, TH(src), th) :
                            /\ Px(heap.out, i, j) = Px(src, x, y)
                            /\ x = NearestIndex(i, TW(src), tw)
                            /\ y = NearestIndex(j, TH(src), th)

\* A row of NearestDim pixels brought down to NearestDim - 2 (its last
\* pixel stays the last), and one stretched from 3 to 5 pixels.
NearestNeighbourWitness ==
    /\ op = "RESIZE" /\ args.antialiasing = 0 /\ ret = "out"
    /\ \/ /\ TW(heap.in1) = NearestDim /\ args.target_w = NearestDim - 2
          /\ Px(heap.out, NearestDim - 3, 0) = Px(heap.in1, NearestDim - 1, 0)
       \/ /\ TW(heap.in1) = 3 /\ args.target_w = 5
          /\ Px(heap.out, 1, 0) = Px(heap.in1, 0, 0)
          /\ Px(heap.out, 2, 0) = Px(heap.in1, 1, 0)
          /\ Px(heap.out, 4, 0) = Px(heap.in1, 2, 0)

\* ------------------------------------------------------- the scanline fill

\* C24: POLYGON with fill and thickness 0 on a closed ring: on every row y
\* between the ring's lowest and highest ordinate (within the image) the
\* crossings of y + 0.5 with the edges are even in number; taken in order
\* and in pairs, the pixels x with ceil(xs[2k]) <= x <= floor(xs[2k+1]) are
\* blended with the colour, each exactly once, and every other pixel of
\* the image is as it was.
ScanlineFill ==
    LET src == heap.in1
        w == TW(src)
        h == TH(src)
        pts == [i \in 1..Len(args.points) |->
                    <<args.points[i][1] - 1, args.points[i][2] - 1>>]
        ys == {pts[i][2] : i \in DOMAIN pts}
        Cl(v) == IF v < 0 THEN 0 ELSE IF v > 255 THEN 255 ELSE v
        color == [k \in 1..4 |-> Cl(args.color[k])]
        Xs(y) == SortFractions(ScanCrossings(pts, y))
        InBox(y) == \E lo \in ys, hi \in ys : lo <= y /\ y <= hi
        Filled(x, y) ==
            /\ InBox(y)
            /\ \E k \in 1..(Len(Xs(y)) \div 2) :
                  /\ CeilFraction(Xs(y)[2 * k - 1]) <= x
                  /\ x <= FloorFraction(Xs(y)[2 * k])
    IN  (/\ op = "POLYGON" /\ err = "none"
         /\ args.fill # 0 /\ args.thickness = 0) =>
            /\ ret = "out"
            /\ heap.out.shape = src.shape
            /\ \A y \in 0..(h - 1) : InBox(y) => Len(Xs(y)) % 2 = 0
            /\ \A x \in 0..(w - 1), y \in 0..(h - 1) :
                  Px(heap.out, x, y) =
                      IF Filled(x, y) THEN AlphaBlendPixel(Px(src, x, y), color)
                      ELSE Px(src, x, y)

\* ------------------------------------------------------- the ellipse ring

\* C25: ELLIPSE with fill = 0 blends, once each, exactly the pixels of the
\* image inside the outer ellipse, (dx/rx)^2 + (dy/ry)^2 <= 1, and not inside
\* the inner one, the same test with rx - thickness and ry - thickness, when
\* both of these are positive; when one of them is not, exactly the pixels
\* inside the outer ellipse.  Every other pixel is as it was.
EllipseRing ==
    LET src == heap.in1
        cx0 == args.center[1] - 1
        cy0 == args.center[2] - 1
        in_rx == args.rx - args.thickness
        in_ry == args.ry - args.thickness
        Cl(v) == IF v < 0 THEN 0 ELSE IF v > 255 THEN 255 ELSE v
        color == [k \in 1..4 |-> Cl(args.color[k])]
        \* (dx/a)^2 + (dy/b)^2 <= 1
        Inside(dx, dy, a, b) == dx * dx * b * b + dy * dy * a * a <= a * a * b * b
        Drawn(x, y) ==
            /\ Inside(x - cx0, y - cy0, args.rx, args.ry)
            /\ (in_rx > 0 /\ in_ry > 0) => ~Inside(x - cx0, y - cy0, in_rx, in_ry)
    IN  (op = "ELLIPSE" /\ err = "none" /\ args.fill = 0) =>
            /\ ret = "out"
            /\ heap.out.shape = src.shape
            /\ \A x \in 0..(TW(src) - 1), y \in 0..(TH(src) - 1) :
                  Px(heap.out, x, y) =
                      IF Drawn(x, y) THEN AlphaBlendPixel(Px(src, x, y), color)
                      ELSE Px(src, x, y)

\* ------------------------------------------------------- the nearest colour

\* C26: CELLSHADE gives every pixel the R, G, B of the palette entry at the
\* least squared RGB distance from it, the one of lowest index among equally
\* near entries; the pixel's alpha is that entry's fourth component when the
\* entries have four and the source pixel's alpha when they have three.
CellshadeNearest ==
    LET src == heap.in1
        pal == args.palette
        D2(p, e) == (p[1] - e[1]) * (p[1] - e[1]) + (p[2] - e[2]) * (p[2] - e[2])
                        + (p[3] - e[3]) * (p[3] - e[3])
        Near(p) == {i \in 1..Len(pal) : \A j \in 1..Len(pal) : D2(p, pal[i]) <= D2(p, pal[j])}
        First(p) == CHOOSE i \in Near(p) : \A j \in Near(p) : i <= j
    IN  (op = "CELLSHADE" /\ err = "none") =>
            /\ ret = "out"
            /\ heap.out.shape = src.shape
            /\ \A x \in 0..(TW(src) - 1), y \in 0..(TH(src) - 1) :
                  LET p == Px(src, x, y)
                      e == pal[First(p)]
                  IN  Px(heap.out, x, y) =
                          <<e[1], e[2], e[3], IF Len(e) = 4 THEN e[4] ELSE p[4]>>

\* A black pixel as near to three entries as to each other gets the first
\* one, alpha included; the white one beside it gets the fourth.
CellshadeNearestWitness ==
    /\ op = "CELLSHADE" /\ ret = "out"
    /\ args.palette = << <<0, 2, 0, 10>>, <<0, 0, 2, 20>>, <<0, 2, 0, 30>>, <<250, 0, 0, 50>> >>
    /\ TW(heap.in1) = MaxW /\ TH(heap.in1) = MaxH
    /\ \E x \in 0..(MaxW - 1), y \in 0..(MaxH - 1) :
          /\ Px(heap.in1, x, y) = <<0, 0, 0, 0>>
          /\ Px(heap.out, x, y) = <<0, 2, 0, 10>>
    /\ \E x \in 0..(MaxW - 1), y \in 0..(MaxH - 1) :
          /\ Px(heap.in1, x, y) = <<1, 2, 3, 4>>
          /\ Px(heap.out, x, y) = <<0, 0, 2, 20>>

\* ------------------------------------------------- the two passes of EDGE

\* h_ranges / v_ranges of _gaussian_blur_2d: the ranges [lo, hi) of an axis
\* of n indices cut for `workers` workers.
BlurRanges(n, workers) ==
    LET chunk == (n + workers - 1) \div workers
    IN  [i \in 1..((n + chunk - 1) \div chunk) |->
            <<(i - 1) * chunk, Min((i - 1) * chunk + chunk, n)>>]

\* horiz_workers (over ny) and vert_workers (over nx); cpu = 0 stands for
\* os.cpu_count() returning None.
BlurWorkers(cpu, n) == Min(Max(1, IF cpu = 0 THEN 1 ELSE cpu), Max(1, n))

\* Whether _gaussian_blur_2d runs both passes in the calling thread.
BlurIsSerial ==
    \/ args.nx * args.ny < 65536
    \/ (BlurWorkers(env.cpu, args.ny) = 1 /\ BlurWorkers(env.cpu, args.nx) = 1)

\* The tasks of one pass: one per range, nothing written yet (at = lo).
BlurTasks(pass, n, workers) ==
    [i \in 1..Len(BlurRanges(n, workers)) |->
        [lo |-> BlurRanges(n, workers)[i][1], hi |-> BlurRanges(n, workers)[i][2],
         pc |-> pass, at |-> BlurRanges(n, workers)[i][1]]]

\* The lines of tmp (or out) written so far are kept as the set of their
\* maximal ranges [lo, hi); AddLines is that set once the lines a..b-1 are
\* written too.
AddLines(written, a, b) ==
    LET touch == {r \in written : r[2] >= a /\ r[1] <= b} \cup {<<a, b>>}
        lo == CHOOSE v \in {r[1] : r \in touch} : \A r \in touch : v <= r[1]
        hi == CHOOSE v \in {r[2] : r \in touch} : \A r \in touch : v >= r[2]
    IN  (written \ touch) \cup {<<lo, hi>>}

\* The small-image branch: every line of tmp, then every line of out.
BlurSerial ==
    /\ op = "_gaussian_blur_2d" /\ ret = "none" /\ pool = <<>>
    /\ BlurIsSerial
    /\ args' = [args EXCEPT !.tmp = {<<0, args.ny>>}, !.out = {<<0, args.nx>>}]
    /\ ret' = "plane"
    /\ UNCHANGED <<heap, disk, env, op, err, pool, joined, tall>>

\* The horizontal pass is handed to the pool: one _h_worker per y range.
BlurSubmitH ==
    /\ op = "_gaussian_blur_2d" /\ ret = "none" /\ pool = <<>>
    /\ ~BlurIsSerial
    /\ pool' = BlurTasks("h", args.ny, BlurWorkers(env.cpu, args.ny))
    /\ joined' = 0
    /\ UNCHANGED <<heap, disk, env, op, args, ret, err, tall>>

\* Task i runs iterations of its loop: the first one (line `at` of tmp for
\* _h_worker, of out for _v_worker), then those that remain, taken together.
BlurWork(i) ==
    LET t == pool[i]
        to == IF t.at = t.lo /\ t.hi > t.lo + 1 THEN t.lo + 1 ELSE t.hi
    IN  /\ op = "_gaussian_blur_2d"
        /\ t.at < t.hi
        /\ pool' = [pool EXCEPT ![i].at = to]
        /\ args' = IF t.pc = "h"
                   THEN [args EXCEPT !.tmp = AddLines(@, t.at, to)]
                   ELSE [args EXCEPT !.out = AddLines(@, t.at, to)]
        /\ UNCHANGED <<heap, disk, env, op, ret, err, joined, tall>>

\* f.result() on the next future: it returns once that task has ended.
BlurJoin ==
    /\ op = "_gaussian_blur_2d" /\ ret = "none"
    /\ joined < Len(pool)
    /\ pool[joined + 1].at = pool[joined + 1].hi
    /\ joined' = joined + 1
    /\ UNCHANGED <<heap, disk, env, op, args, ret, err, pool, tall>>

\* BlurSubmitV not waiting for the horizontal futures.
BlurSubmitVEarly ==
    /\ op = "_gaussian_blur_2d" /\ ret = "none"
    /\ pool # <<>>
    /\ \A i \in DOMAIN pool : pool[i].pc = "h"
    /\ pool' = pool \o BlurTasks("v", args.nx, BlurWorkers(env.cpu, args.nx))
    /\ UNCHANGED <<heap, disk, env, op, args, ret, err, joined, tall>>

\* After the last horizontal future the vertical pass is handed to a new
\* pool: one _v_worker per x range.
BlurSubmitV ==
    /\ op = "_gaussian_blur_2d" /\ ret = "none"
    /\ pool # <<>>
    /\ \A i \in DOMAIN pool : pool[i].pc = "h"
    /\ joined = Len(pool)
    /\ pool' = pool \o BlurTasks("v", args.nx, BlurWorkers(env.cpu, args.nx))
    /\ UNCHANGED <<heap, disk, env, op, args, ret, err, joined, tall>>

\* After the last vertical future the function returns out.
BlurReturn ==
    /\ op = "_gaussian_blur_2d" /\ ret = "none"
    /\ \E i \in DOMAIN pool : pool[i].pc = "v"
    /\ joined = Len(pool)
    /\ ret' = "plane"
    /\ UNCHANGED <<heap, disk, env, op, args, err, pool, joined, tall>>

\* Luminance planes at and around 65,536 cells, both axes at least as long
\* as the kernel of the first blur (radius 1, three taps).
BlurPlanes ==
    { <<256, 256>>, <<255, 257>>, <<5, 13108>>, <<13108, 5>>, <<5, 13107>>,
      <<7, 9363>>, <<65536, 6>>, <<6, 10923>>, <<8, 8>>, <<4, 16384>>,
      <<16384, 4>>, <<3, 21846>> }

\* _gaussian_blur_2d has been entered with a plane of nx x ny; tmp and out
\* are the line ranges written so far.
BlurInit ==
    /\ heap = [in1 |-> NoTensor, in2 |-> NoTensor, out |-> NoTensor]
    /\ disk = NoFile
    /\ env \in {[pil |-> TRUE, gdi |-> FALSE, cpu |-> n] : n \in 0..MaxCpu}
    /\ op = "_gaussian_blur_2d"
    /\ args \in {[nx |-> p[1], ny |-> p[2], tmp |-> {}, out |-> {}] : p \in BlurPlanes}
    /\ ret = "none"
    /\ err = "none"
    /\ pool = <<>>
    /\ joined = 0
    /\ tall = 1

PoolInit == InvertInit \/ BlurInit

PoolNext ==
    \/ InvertNext
    \/ BlurSerial
    \/ BlurSubmitH
    \/ \E i \in DOMAIN pool : BlurWork(i)
    \/ BlurJoin
    \/ BlurSubmitV
    \/ BlurReturn

SpecPool == PoolInit /\ [][PoolNext]_vars

\* C27: in the threaded INVERT and in the two threaded passes of EDGE's blur
\* the tasks' ranges follow one another from 0 to the end of the axis (the
\* columns for INVERT, ny for the horizontal pass, nx for the vertical one),
\* none empty, so that they are pairwise disjoint and cover it; a step of a
\* task writes only inside its own range; the vertical tasks exist only
\* once every horizontal task has ended and all of tmp is written; and the
\* call returns only once every task has ended, all of out written.
PoolDiscipline ==
    [][LET Tiles(tasks, n) ==
               /\ tasks # <<>>
               /\ tasks[1].lo = 0 /\ tasks[Len(tasks)].hi = n
               /\ \A i \in DOMAIN tasks : tasks[i].lo < tasks[i].hi
               /\ \A i \in 1..(Len(tasks) - 1) : tasks[i].hi = tasks[i + 1].lo
           IsH(t) == t.pc = "h"
           IsV(t) == t.pc = "v"
           Ended(t) == IF t.pc \in {"h", "v"} THEN t.at = t.hi ELSE t.pc = "done"
           Has(written, k) == \E r \in written : r[1] <= k /\ k < r[2]
           \* the lines in `new` and not in `old` all lie in lo..hi-1; a run of
           \* such lines starts where a range of `new` starts or one of `old` ends
           NewWithin(old, new, lo, hi) ==
               \A k \in {r[1] : r \in new} \cup {r[2] : r \in old} :
                   (Has(new, k) /\ ~Has(old, k)) => (lo <= k /\ k < hi)
           NewUpTo(old, new, lo, hi) ==
               \A k \in {r[2] - 1 : r \in new} \cup {r[1] - 1 : r \in old} :
                   (Has(new, k) /\ ~Has(old, k)) => (lo <= k /\ k < hi)
       IN     /\ (op' = "INVERT" /\ pool' # <<>>) => Tiles(pool', TW(heap'.in1))
              /\ (op' = "INVERT" /\ pool' # <<>> /\ ret' = "out") =>
                    \A i \in DOMAIN pool' : Ended(pool'[i])
              /\ (op = "INVERT" /\ op' = "INVERT") =>
                    \A i \in DOMAIN pool :
                       (pool'[i].pc # pool[i].pc) =>
                           \A x \in 0..(TW(heap.out) - 1), y \in 0..(TH(heap.out) - 1) :
                               (x < pool[i].lo \/ x >= pool[i].hi) =>
                                   Px(heap'.out, x, y) = Px(heap.out, x, y)
              /\ (op' = "_gaussian_blur_2d" /\ pool' # <<>>) =>
                    /\ Tiles(SelectSeq(pool', IsH), args'.ny)
                    /\ SelectSeq(pool', IsV) # <<>> =>
                          /\ Tiles(SelectSeq(pool', IsV), args'.nx)
                          /\ \A i \in DOMAIN pool' : IsH(pool'[i]) => Ended(pool'[i])
                          /\ args'.tmp = {<<0, args'.ny>>}
                    /\ ret' = "plane" =>
                          /\ \A i \in DOMAIN pool' : Ended(pool'[i])
                          /\ args'.out = {<<0, args'.nx>>}
              /\ (op = "_gaussian_blur_2d" /\ pool # <<>>) =>
                    \A i \in DOMAIN pool :
                       (pool'[i].at # pool[i].at) =>
                           /\ IF IsH(pool[i])
                              THEN /\ NewWithin(args.tmp, args'.tmp, pool[i].lo, pool[i].hi)
                                   /\ NewUpTo(args.tmp, args'.tmp, pool[i].lo, pool[i].hi)
                                   /\ args'.out = args.out
                              ELSE /\ NewWithin(args.out, args'.out, pool[i].lo, pool[i].hi)
                                   /\ NewUpTo(args.out, args'.out, pool[i].lo, pool[i].hi)
                                   /\ args'.tmp = args.tmp
                           /\ \A j \in DOMAIN pool : j # i => pool'[j] = pool[j]]_vars

\* Three horizontal tasks over five rows and three vertical ones over
\* 13,108 columns have run and been joined, and the blur has returned.
PoolDisciplineWitness ==
    /\ op = "_gaussian_blur_2d" /\ ret = "plane"
    /\ args.ny = 5 /\ args.nx = 13108
    /\ Len(pool) = 6 /\ joined = 6
    /\ <<pool[1].lo, pool[1].hi, pool[2].hi, pool[3].hi>> = <<0, 2, 4, 5>>
    /\ <<pool[4].lo, pool[4].hi, pool[5].hi, pool[6].hi>> = <<0, 4370, 8740, 13108>>
    /\ args.tmp = {<<0, 5>>} /\ args.out = {<<0, 13108>>}


\* ------------------------------------------------- the decoders of a load

\* What _load_with_gdiplus can hand back for a file: GDI+ is outside the
\* program, so each outcome is possible whatever the file holds.  It raises
\* (no codec for the file, no lock on its bits), or returns a width, a height
\* and width * height * 4 channel values.
GdiOutcomes ==
    {DecodeFail("GdipLoadImageFromFile failed (2)"),
     DecodeFail("GdipBitmapLockBits failed (7)"),
     [err |-> "none", w |-> 1, h |-> 1, pixels |-> <<9, 8, 7, 255>>],
     [err |-> "none", w |-> 2, h |-> 1, pixels |-> <<1, 2, 3, 4, 250, 251, 252, 253>>]}

\* The module has no backend: _load_with_gdiplus is None.
NoBackend == DecodeFail("_load_with_gdiplus is None")

\* _load_png_file that lets the failure of the backend through.
LoadPngFileNoRetry(present, backend, data) ==
    IF present THEN backend ELSE DecodePng(data)

\* _load_png_file: the backend when there is one and it returns, else the
\* pure decoder.
LoadPngFile(present, backend, data) ==
    IF present /\ backend.err = "none" THEN backend ELSE DecodePng(data)

\* _load_bmp_file: as _load_png_file, over _decode_bmp.
LoadBmpFile(present, backend, data) ==
    IF present /\ backend.err = "none" THEN backend ELSE DecodeBmp(data)

\* _load_jpeg_file: the backend or nothing.
LoadJpegFile(present, backend) ==
    IF ~present THEN DecodeFail("JPEG decoding requires Windows GDI+") ELSE backend

\* The tail of the three load operators when the backend's answer is b and
\* the loader's is d (kept with the call for the properties below).
LoadedVia(name, b, d) ==
    LET r == LoadResult(d)
    IN  /\ op' = name
        /\ args' = [backend |-> b, decoded |-> d]
        /\ heap' = [heap EXCEPT !.out = r.tensor]
        /\ ret' = IF r.err = "none" THEN "out" ELSE "none"
        /\ err' = r.err
        /\ UNCHANGED <<disk, env, pool, joined, tall>>

\* LOAD_PNG(path) on a platform that may have GDI+.
LoadPngVia ==
    /\ op = "init"
    /\ \E b \in IF env.gdi THEN GdiOutcomes ELSE {NoBackend} :
           LoadedVia("LOAD_PNG", b, LoadPngFile(env.gdi, b, disk.bytes))

\* LOAD_BMP(path) on a platform that may have GDI+.
LoadBmpVia ==
    /\ op = "init"
    /\ \E b \in IF env.gdi THEN GdiOutcomes ELSE {NoBackend} :
           LoadedVia("LOAD_BMP", b, LoadBmpFile(env.gdi, b, disk.bytes))

\* LOAD_JPEG(path).
LoadJpegVia ==
    /\ op = "init"
    /\ \E b \in IF env.gdi THEN GdiOutcomes ELSE {NoBackend} :
           LoadedVia("LOAD_JPEG", b, LoadJpegFile(env.gdi, b))

BackendInit ==
    /\ heap = [in1 |-> NoTensor, in2 |-> NoTensor, out |-> NoTensor]
    /\ disk \in ForeignFiles
    /\ env \in {[pil |-> FALSE, gdi |-> g, cpu |-> 1] : g \in BOOLEAN}
    /\ op = "init"
    /\ args = NoArgs
    /\ ret = "none"
    /\ err = "none"
    /\ pool = <<>>
    /\ joined = 0
    /\ tall = 1

BackendNext ==
    \/ LoadPngVia
    \/ LoadBmpVia
    \/ LoadJpegVia

SpecBackend == BackendInit /\ [][BackendNext]_vars

\* C28: LOAD_PNG and LOAD_BMP get what the first decoder that succeeds
\* returned, the backend before the pure decoder: when the backend is there
\* and returns, the image is the backend's; when it is absent or raises, the
\* outcome is the pure decoder's, image or failure, and never the backend's
\* failure; decoding fails only when the pure decoder fails on the file, and
\* the caller is then given the pure decoder's failure.  LOAD_JPEG without a
\* backend fails whatever the file holds.
DecoderOrder ==
    LET pure == IF op = "LOAD_PNG" THEN DecodePng(disk.bytes) ELSE DecodeBmp(disk.bytes)
        b == args.backend
    IN  /\ op \in {"LOAD_PNG", "LOAD_BMP"} =>
              /\ (env.gdi /\ b.err = "none") =>
                     /\ args.decoded = b
                     /\ err = "none" /\ ret = "out"
                     /\ heap.out = MakeTensorFromPixels(b.w, b.h, b.pixels)
              /\ ~(env.gdi /\ b.err = "none") =>
                     /\ args.decoded = pure
                     /\ err = LoadResult(pure).err
                     /\ heap.out = LoadResult(pure).tensor
                     /\ ret = (IF LoadResult(pure).err = "none" THEN "out" ELSE "none")
              /\ args.decoded.err # "none" =>
                     (pure.err # "none" /\ err = pure.err /\ ret = "none")
              /\ err \notin {"none", pure.err} =>
                     (args.decoded.err = "none" /\ err = LoadResult(args.decoded).err)
        /\ (op = "LOAD_JPEG" /\ ~env.gdi) =>
              /\ err = "JPEG decoding requires Windows GDI+"
              /\ ret = "none" /\ heap.out = NoTensor

\* A backend that raised on a file the pure decoder reads: the load returns
\* the pure decoder's image.
DecoderOrderWitness ==
    /\ op = "LOAD_PNG" /\ env.gdi
    /\ args.backend.err # "none"
    /\ err = "none" /\ ret = "out"
    /\ DecodePng(disk.bytes).err = "none"
    /\ TW(heap.out) = 2 /\ TH(heap.out) = 2
    /\ heap.out = LoadResult(DecodePng(disk.bytes)).tensor


\* --------------------------------------------------- the chunk walk, stepped

\* One turn of the while loop of _decode_png at byte position pos: the
\* position after the chunk, the fields and IDAT bytes gathered, and whether
\* the loop goes on.  This turn takes IEND for one more chunk to skip.
WalkChunkPastEnd(data, pos, st) ==
    LET length == ReadU32BE(Slice(data, pos, pos + 4))
        ctype == Slice(data, pos + 4, pos + 8)
        chunk == Slice(data, pos + 8, pos + 8 + length)
        next == pos + 8 + length + 4
    IN  IF ctype = IHDR
        THEN IF Len(chunk) # 13
             THEN [pos |-> next, st |-> [st EXCEPT !.err = "struct.error"], more |-> FALSE]
             ELSE IF chunk[11] # 0 \/ chunk[12] # 0
             THEN [pos |-> next, more |-> FALSE,
                   st |-> [st EXCEPT !.err = "Unsupported PNG compression or filter method"]]
             ELSE [pos |-> next, more |-> TRUE,
                   st |-> [st EXCEPT !.hdr = [width |-> ReadU32BE(Slice(chunk, 0, 4)),
                                              height |-> ReadU32BE(Slice(chunk, 4, 8)),
                                              bit_depth |-> chunk[9],
                                              color_type |-> chunk[10],
                                              interlace |-> chunk[13]]]]
        ELSE IF ctype = IDAT
        THEN [pos |-> next, st |-> [st EXCEPT !.idat = st.idat \o chunk], more |-> TRUE]
        ELSE [pos |-> next, st |-> st, more |-> TRUE]

\* One turn of the while loop of _decode_png at byte position pos: the
\* position after the chunk, the fields and IDAT bytes gathered, and whether
\* the loop goes on (IEND breaks it, a raise leaves it).
WalkChunk(data, pos, st) ==
    LET length == ReadU32BE(Slice(data, pos, pos + 4))
        ctype == Slice(data, pos + 4, pos + 8)
        chunk == Slice(data, pos + 8, pos + 8 + length)
        next == pos + 8 + length + 4
    IN  IF ctype = IHDR
        THEN IF Len(chunk) # 13
             THEN [pos |-> next, st |-> [st EXCEPT !.err = "struct.error"], more |-> FALSE]
             ELSE IF chunk[11] # 0 \/ chunk[12] # 0
             THEN [pos |-> next, more |-> FALSE,
                   st |-> [st EXCEPT !.err = "Unsupported PNG compression or filter method"]]
             ELSE [pos |-> next, more |-> TRUE,
                   st |-> [st EXCEPT !.hdr = [width |-> ReadU32BE(Slice(chunk, 0, 4)),
                                              height |-> ReadU32BE(Slice(chunk, 4, 8)),
                                              bit_depth |-> chunk[9],
                                              color_type |-> chunk[10],
                                              interlace |-> chunk[13]]]]
        ELSE IF ctype = IDAT
        THEN [pos |-> next, st |-> [st EXCEPT !.idat = st.idat \o chunk], more |-> TRUE]
        ELSE IF ctype = IEND THEN [pos |-> next, st |-> st, more |-> FALSE]
        ELSE [pos |-> next, st |-> st, more |-> TRUE]

\* _decode_png after its loop: the checks on what the walk gathered, the
\* inflation and the rows.
DecodePngAfterWalk(st) ==
    LET hdr == st.hdr
        bpp == IF hdr.color_type = 6 THEN 4 ELSE 3
        stride == hdr.width * bpp
        z == ZlibDecompress(st.idat)
        expected == (stride + 1) * hdr.height
    IN  IF st.err # "none" THEN DecodeFail(st.err)
        ELSE IF hdr = NoHdr THEN DecodeFail("Malformed PNG: missing IHDR")
        ELSE IF hdr.interlace # 0 THEN DecodeFail("Interlaced PNG is not supported")
        ELSE IF hdr.bit_depth # 8 THEN DecodeFail("Only 8-bit PNG is supported")
        ELSE IF hdr.color_type \notin {2, 6} THEN DecodeFail("Unsupported PNG color type")
        ELSE IF ~z.ok THEN DecodeFail("zlib.error")
        ELSE IF Len(z.data) < expected THEN DecodeFail("PNG data truncated")
        ELSE LET rows == DecodeRows(z.data, hdr.width, hdr.height, bpp, 0,
                                    [i \in 1..stride |-> 0], <<>>)
             IN  IF rows.err # "none" THEN DecodeFail(rows.err)
                 ELSE [err |-> "none", w |-> hdr.width, h |-> hdr.height,
                       pixels |-> rows.pixels]

\* The most chunks a file of the walk has.
MaxChunks == 4

\* The deflate stream of a 1 x 1 RGBA image, cut in two for two IDAT chunks.
OnePixelStream == ZlibCompress(<<0, 10, 20, 30, 40>>, 6)

\* The chunks files are made of: a header, the stream whole and in two
\* halves, an IDAT of other bytes, a text chunk, the end.
ChunkKinds ==
    {[ctype |-> IHDR, data |-> U32BE(1) \o U32BE(1) \o <<8, 6, 0, 0, 0>>],
     [ctype |-> IDAT, data |-> Slice(OnePixelStream, 0, 5)],
     [ctype |-> IDAT, data |-> Slice(OnePixelStream, 5, Len(OnePixelStream))],
     [ctype |-> IDAT, data |-> <<1, 2, 3>>],
     [ctype |-> IDAT, data |-> OnePixelStream],
     [ctype |-> <<116, 69, 88, 116>>, data |-> <<65, 0, 66>>],
     [ctype |-> IEND, data |-> <<>>]}

ChunkPlans == UNION {[1..n -> ChunkKinds] : n \in 0..MaxChunks}

\* The file of a plan: the signature and the chunks, the last `cut` bytes
\* (of the last checksum) missing.
ChunkFile(plan, cut) ==
    LET whole == PNG_SIGNATURE
                    \o Flatten([i \in 1..Len(plan) |-> PngChunk(plan[i].ctype, plan[i].data)])
    IN  Slice(whole, 0, Len(whole) - cut)

\* Every plan's file, and the files of up to two chunks also two bytes short.
ChunkFiles ==
    {[origin |-> "png file", bytes |-> ChunkFile(p, 0), fields |-> p] : p \in ChunkPlans}
        \cup {[origin |-> "png file", bytes |-> ChunkFile(p, 2), fields |-> p] :
                p \in {q \in ChunkPlans : Len(q) <= 2}}

\* Some program stores a file under the path LOAD_PNG will be given.
FileStored ==
    /\ op = "init"
    /\ disk = NoFile
    /\ disk' \in ChunkFiles
    /\ UNCHANGED <<heap, env, op, args, ret, err, pool, joined, tall>>

\* _decode_png entered: the signature test, pos = 8, nothing gathered.
WalkOpen ==
    /\ op = "init"
    /\ disk # NoFile
    /\ IF Slice(disk.bytes, 0, 8) # PNG_SIGNATURE
       THEN /\ op' = "LOAD_PNG"
            /\ args' = [pos |-> 0, more |-> FALSE,
                        st |-> [hdr |-> NoHdr, idat |-> <<>>, err |-> "Not a PNG file"]]
            /\ ret' = "none"
            /\ err' = "Not a PNG file"
       ELSE /\ op' = "_decode_png"
            /\ args' = [pos |-> 8, more |-> TRUE,
                        st |-> [hdr |-> NoHdr, idat |-> <<>>, err |-> "none"]]
            /\ UNCHANGED <<ret, err>>
    /\ UNCHANGED <<heap, disk, env, pool, joined, tall>>

\* One turn of the loop.
WalkTurn ==
    /\ op = "_decode_png"
    /\ args.more
    /\ args.pos + 8 <= Len(disk.bytes)
    /\ args' = WalkChunk(disk.bytes, args.pos, args.st)
    /\ UNCHANGED <<heap, disk, env, op, ret, err, pool, joined, tall>>

\* The loop left: the rest of _decode_png and of LOAD_PNG.
WalkClose ==
    /\ op = "_decode_png"
    /\ ~(args.more /\ args.pos + 8 <= Len(disk.bytes))
    /\ LET r == LoadResult(DecodePngAfterWalk(args.st))
       IN  /\ op' = "LOAD_PNG"
           /\ heap' = [heap EXCEPT !.out = r.tensor]
           /\ ret' = IF r.err = "none" THEN "out" ELSE "none"
           /\ err' = r.err
    /\ UNCHANGED <<disk, env, args, pool, joined, tall>>

ChunksInit ==
    /\ heap = [in1 |-> NoTensor, in2 |-> NoTensor, out |-> NoTensor]
    /\ disk = NoFile
    /\ env = [pil |-> FALSE, gdi |-> FALSE, cpu |-> 1]
    /\ op = "init"
    /\ args = NoArgs
    /\ ret = "none"
    /\ err = "none"
    /\ pool = <<>>
    /\ joined = 0
    /\ tall = 1

ChunksNext ==
    \/ FileStored
    \/ WalkOpen
    \/ WalkTurn
    \/ WalkClose

\* The decoder runs in the caller's thread: a turn of the loop that can be
\* taken is taken.
SpecChunks ==
    ChunksInit /\ [][ChunksNext]_vars
        /\ WF_vars(FileStored) /\ WF_vars(WalkOpen) /\ WF_vars(WalkTurn)

\* The while loop of _decode_png is not running, or no longer.
WalkOver ==
    \/ op = "LOAD_PNG"
    \/ op = "_decode_png" /\ ~(args.more /\ args.pos + 8 <= Len(disk.bytes))

\* What a file's chunks say the stream is: the data of the IDAT chunks up to
\* the first IEND, in order.
RECURSIVE StreamBeforeEnd(_)
StreamBeforeEnd(plan) ==
    IF plan = <<>> \/ Head(plan).ctype = IEND THEN <<>>
    ELSE (IF Head(plan).ctype = IDAT THEN Head(plan).data ELSE <<>>)
            \o StreamBeforeEnd(Tail(plan))

RECURSIVE HeaderBeforeEnd(_)
HeaderBeforeEnd(plan) ==
    /\ plan # <<>>
    /\ Head(plan).ctype # IEND
    /\ (Head(plan).ctype = IHDR \/ HeaderBeforeEnd(Tail(plan)))

\* C29: when the walk of a PNG file is over, the bytes handed to the
\* inflater are the data of the file's IDAT chunks that precede its first
\* IEND, concatenated in file order (other chunks and everything after IEND
\* add nothing); a file with no IHDR ahead of the end of the walk fails with
\* the malformed-file error; each turn of the walk moves the read position
\* forward, and every walk ends.
ChunkWalk ==
    /\ [](op = "LOAD_PNG" /\ Slice(disk.bytes, 0, 8) = PNG_SIGNATURE =>
            /\ args.st.idat = StreamBeforeEnd(disk.fields)
            /\ ~HeaderBeforeEnd(disk.fields) =>
                   (err = "Malformed PNG: missing IHDR" /\ ret = "none"))
    /\ [][op = "_decode_png" /\ op' = "_decode_png" => args'.pos > args.pos]_vars
    /\ <>WalkOver

\* A file with one more IDAT chunk after its IEND: the image is read from
\* the stream before IEND.
ChunkWalkWitness ==
    /\ op = "LOAD_PNG" /\ err = "none" /\ ret = "out"
    /\ Len(disk.fields) = 4
    /\ disk.fields[1].ctype = IHDR
    /\ disk.fields[2].ctype = IDAT
    /\ disk.fields[3].ctype = IEND
    /\ disk.fields[4] = [ctype |-> IDAT, data |-> <<1, 2, 3>>]
    /\ args.st.idat = OnePixelStream
    /\ heap.out = MakeTensorFromPixels(1, 1, <<10, 20, 30, 40>>)


\* ------------------------------------------------- the edge loop, stepped

\* draw_line's locals from its arguments: dx, dy, sx, sy and the first err.
DrawLineLocals(x0, y0, x1, y1) ==
    LET dx == Abs(x1 - x0)
        dy == Abs(y1 - y0)
    IN  [dx |-> dx, dy |-> dy,
         sx |-> IF x0 < x1 THEN 1 ELSE -1,
         sy |-> IF y0 < y1 THEN 1 ELSE -1,
         err |-> IF dx > dy THEN dx \div 2 ELSE dy \div 2]

\* The move of draw_line that never gives the error term back what a step
\* on the minor axis costs.
DrawLineMoveNoCarry(a) ==
    LET l == DrawLineLocals(a.x0, a.y0, a.x1, a.y1)
    IN  IF l.dx > l.dy
        THEN IF a.err - l.dy < 0
             THEN [a EXCEPT !.x = a.x + l.sx, !.y = a.y + l.sy, !.err = a.err - l.dy]
             ELSE [a EXCEPT !.x = a.x + l.sx, !.err = a.err - l.dy]
        ELSE IF a.err - l.dx < 0
             THEN [a EXCEPT !.x = a.x + l.sx, !.y = a.y + l.sy, !.err = a.err - l.dx]
             ELSE [a EXCEPT !.y = a.y + l.sy, !.err = a.err - l.dx]

\* One move of draw_line after a stamp that was not the last: a step on the
\* major axis, and one on the minor axis when the error term runs out.
DrawLineMove(a) ==
    LET l == DrawLineLocals(a.x0, a.y0, a.x1, a.y1)
    IN  IF l.dx > l.dy
        THEN IF a.err - l.dy < 0
             THEN [a EXCEPT !.x = a.x + l.sx, !.y = a.y + l.sy, !.err = a.err - l.dy + l.dx]
             ELSE [a EXCEPT !.x = a.x + l.sx, !.err = a.err - l.dy]
        ELSE IF a.err - l.dx < 0
             THEN [a EXCEPT !.x = a.x + l.sx, !.y = a.y + l.sy, !.err = a.err - l.dx + l.dy]
             ELSE [a EXCEPT !.y = a.y + l.sy, !.err = a.err - l.dx]

\* The break test of draw_line's loops.
DrawLineAtEnd(a) ==
    LET l == DrawLineLocals(a.x0, a.y0, a.x1, a.y1)
    IN  IF l.dx > l.dy THEN a.x = a.x1 ELSE a.y = a.y1

\* How far from the buffer's corner the endpoints of the lines lie.
LineReach == 2

LineCoords == (-LineReach)..LineReach

\* The colour the edges are stroked with, as _op_polygon clamped it.
LineColor == <<200, 100, 50, 128>>

\* draw_line(x0, y0, x1, y1) called for an edge, the brush `thickness` wide.
DrawLineCall(x0, y0, x1, y1, thickness) ==
    /\ op = "init"
    /\ op' = "draw_line"
    /\ args' = [x0 |-> x0, y0 |-> y0, x1 |-> x1, y1 |-> y1, thickness |-> thickness,
                x |-> x0, y |-> y0, err |-> DrawLineLocals(x0, y0, x1, y1).err,
                stamps |-> <<>>]
    /\ UNCHANGED <<heap, disk, env, ret, err, pool, joined, tall>>

\* One turn of the loop: the stamp at (x, y), then the break or the move.
DrawLineTurn ==
    /\ op = "draw_line"
    /\ heap' = [heap EXCEPT !.out =
                  BlendAll(heap.out,
                           DrawThick(args.x, args.y, args.thickness, TW(heap.out), TH(heap.out)),
                           LineColor)]
    /\ LET stamped == [args EXCEPT !.stamps = Append(args.stamps, <<args.x, args.y>>)]
       IN  IF DrawLineAtEnd(args)
           THEN op' = "drawn" /\ args' = stamped
           ELSE op' = op /\ args' = DrawLineMove(stamped)
    /\ UNCHANGED <<disk, env, ret, err, pool, joined, tall>>

\* _op_polygon has copied the image (new_arr = arr.copy()); no edge is
\* stroked yet.
LineInit ==
    /\ heap = [in1 |-> Stamp, in2 |-> NoTensor, out |-> Stamp]
    /\ disk = NoFile
    /\ env = [pil |-> FALSE, gdi |-> FALSE, cpu |-> 1]
    /\ op = "init"
    /\ args = NoArgs
    /\ ret = "none"
    /\ err = "none"
    /\ pool = <<>>
    /\ joined = 0
    /\ tall = 1

LineNext ==
    \/ \E x0 \in LineCoords, y0 \in LineCoords, x1 \in LineCoords, y1 \in LineCoords,
          thickness \in {1, 3} : DrawLineCall(x0, y0, x1, y1, thickness)
    \/ DrawLineTurn

\* The loop runs in the caller's thread: a turn that can be taken is taken.
SpecLine == LineInit /\ [][LineNext]_vars /\ WF_vars(DrawLineTurn)

====
